---- MODULE Spec2Model ----
(***************************************************************************)
(* The NLP query engine for employee data: the query route                 *)
(* (backend/api/routes/query.py), the query engine with its TTL cache      *)
(* (backend/api/services/query_engine.py) and the part of schema discovery *)
(* the translator reads (backend/api/services/schema_discovery.py).        *)
(*                                                                         *)
(* Python str values are TLA+ strings (TLC evaluates Len, SubSeq and \o on *)
(* them); a dict is a function whose DOMAIN is its key set; a list is a    *)
(* sequence; an optional value (None or v) is <<>> or <<v>>.  A similarity *)
(* is kept in hundredths (0.2 is 20), the embeddings of the model being    *)
(* integer vectors whose cosine is an exact number of hundredths.          *)
(***************************************************************************)
EXTENDS Integers, Sequences, FiniteSets, TLC

(***************************************************************************)
(* Bounds of the model.                                                    *)
(***************************************************************************)
MaxCalls == 2        \* requests served in one behaviour
MaxFaults == 1       \* requests of a behaviour during which a collaborator fails
MaxTasks == 2        \* requests to the query route in flight together
MaxJobs == 2         \* upload batches of one behaviour
MaxFiles == 2        \* files of one upload batch

(***************************************************************************)
(* Python string operations.                                               *)
(***************************************************************************)
LowerAlpha == "abcdefghijklmnopqrstuvwxyz"
UpperAlpha == "ABCDEFGHIJKLMNOPQRSTUVWXYZ"

CharAt(s, i) == SubSeq(s, i, i)

LowerChar(c) ==
    IF \E i \in 1..Len(UpperAlpha) : CharAt(UpperAlpha, i) = c
    THEN CharAt(LowerAlpha, CHOOSE i \in 1..Len(UpperAlpha) : CharAt(UpperAlpha, i) = c)
    ELSE c

UpperChar(c) ==
    IF \E i \in 1..Len(LowerAlpha) : CharAt(LowerAlpha, i) = c
    THEN CharAt(UpperAlpha, CHOOSE i \in 1..Len(LowerAlpha) : CharAt(LowerAlpha, i) = c)
    ELSE c

RECURSIVE Lower(_)
\* str.lower()
Lower(s) == IF Len(s) = 0 THEN "" ELSE LowerChar(CharAt(s, 1)) \o Lower(SubSeq(s, 2, Len(s)))

RECURSIVE Upper(_)
\* str.upper()
Upper(s) == IF Len(s) = 0 THEN "" ELSE UpperChar(CharAt(s, 1)) \o Upper(SubSeq(s, 2, Len(s)))

\* k occurs in s at position i
MatchesAt(s, k, i) == i + Len(k) - 1 <= Len(s) /\ SubSeq(s, i, i + Len(k) - 1) = k

\* `k in s`, and re.search(k, s) for a pattern k without metacharacters
Contains(s, k) == \E i \in 1..(Len(s) - Len(k) + 1) : MatchesAt(s, k, i)

\* any(k in s for k in keywords)
AnyIn(keywords, s) == \E i \in 1..Len(keywords) : Contains(s, keywords[i])

\* re.search('a|b|c', s) is not None, the alternatives given as a sequence
ReSearch(alts, s) == \E i \in 1..Len(alts) : Contains(s, alts[i])

\* re.search('(a|b|c)', s).group(1): the leftmost match, and at that position
\* the first alternative that matches; <<>> when nothing matches
ReSearchGroup(alts, s) ==
    IF ~ReSearch(alts, s) THEN <<>>
    ELSE LET hit(i) == \E a \in 1..Len(alts) : MatchesAt(s, alts[a], i)
             pos == CHOOSE i \in 1..Len(s) : hit(i) /\ \A j \in 1..(i - 1) : ~hit(j)
             alt == CHOOSE a \in 1..Len(alts) :
                        /\ MatchesAt(s, alts[a], pos)
                        /\ \A b \in 1..(a - 1) : ~MatchesAt(s, alts[b], pos)
         IN  <<alts[alt]>>

RECURSIVE ReplaceAll(_, _, _)
\* str.replace(old, new)
ReplaceAll(s, old, new) ==
    IF Len(s) = 0 THEN ""
    ELSE IF MatchesAt(s, old, 1)
         THEN new \o ReplaceAll(SubSeq(s, Len(old) + 1, Len(s)), old, new)
         ELSE CharAt(s, 1) \o ReplaceAll(SubSeq(s, 2, Len(s)), old, new)

RECURSIVE Join(_, _)
\* sep.join(parts)
Join(parts, sep) ==
    IF Len(parts) = 0 THEN ""
    ELSE IF Len(parts) = 1 THEN parts[1]
    ELSE parts[1] \o sep \o Join(Tail(parts), sep)

RECURSIVE Concat(_)
\* the concatenation of a sequence of sequences
Concat(ss) == IF Len(ss) = 0 THEN <<>> ELSE Head(ss) \o Concat(Tail(ss))

\* dict.get(k, default)
Get(d, k, default) == IF k \in DOMAIN d THEN d[k] ELSE default

\* {**a, **b}: the keys of b override those of a
Merge(a, b) == b @@ a

(***************************************************************************)
(* Schema discovery: the pattern vocabulary, the purpose of a table and    *)
(* the mapping of a query text to the schema.                              *)
(***************************************************************************)
\* SchemaDiscovery.table_patterns, in the dict's insertion order
table_patterns == <<
    [purpose |-> "employee",   patterns |-> <<"emp", "staff", "personnel", "worker", "employee", "user">>],
    [purpose |-> "department", patterns |-> <<"dept", "department", "division", "team", "unit", "group">>],
    [purpose |-> "salary",     patterns |-> <<"salary", "compensation", "pay", "wage", "income", "earnings">>],
    [purpose |-> "document",   patterns |-> <<"doc", "document", "file", "resume", "review", "cv">>],
    [purpose |-> "project",    patterns |-> <<"project", "task", "assignment", "work">>],
    [purpose |-> "leave",      patterns |-> <<"leave", "vacation", "holiday", "absence">>] >>

\* SchemaDiscovery.column_patterns, in the dict's insertion order
column_patterns == <<
    [purpose |-> "name",       patterns |-> <<"name", "full_name", "employee_name", "staff_name", "user_name", "first_name", "last_name">>],
    [purpose |-> "id",         patterns |-> <<"id", "_id", "key", "code", "num", "number">>],
    [purpose |-> "department", patterns |-> <<"dept", "department", "division", "team", "unit", "group">>],
    [purpose |-> "salary",     patterns |-> <<"salary", "compensation", "pay", "wage", "income", "earnings">>],
    [purpose |-> "email",      patterns |-> <<"email", "mail", "address">>],
    [purpose |-> "phone",      patterns |-> <<"phone", "telephone", "contact", "mobile">>],
    [purpose |-> "hire_date",  patterns |-> <<"hire", "join", "start", "date", "employed", "commence">>],
    [purpose |-> "position",   patterns |-> <<"position", "title", "role", "job", "designation">>] >>

\* self.table_patterns.get(purpose, [])
TablePatternsOf(purpose) ==
    IF \E i \in 1..Len(table_patterns) : table_patterns[i].purpose = purpose
    THEN table_patterns[CHOOSE i \in 1..Len(table_patterns) : table_patterns[i].purpose = purpose].patterns
    ELSE <<>>

\* a classification that consults the columns before the table name
GuessTablePurposeColumnsFirst(table_name, columns) ==
    IF \E i \in 1..Len(column_patterns) :
          /\ column_patterns[i].purpose \in
                 {"name", "salary", "department", "hire_date", "email", "phone"}
          /\ \E c \in 1..Len(columns) :
                 ReSearch(column_patterns[i].patterns, Lower(columns[c].name))
    THEN "employee"
    ELSE IF \E i \in 1..Len(table_patterns) : ReSearch(table_patterns[i].patterns, Lower(table_name))
    THEN table_patterns[CHOOSE i \in 1..Len(table_patterns) :
                            /\ ReSearch(table_patterns[i].patterns, Lower(table_name))
                            /\ \A j \in 1..(i - 1) :
                                   ~ReSearch(table_patterns[j].patterns, Lower(table_name))].purpose
    ELSE "unknown"

\* _guess_table_purpose: the first purpose one of whose patterns matches the
\* table name; else employee when a column matches a name, department, salary,
\* email, phone or hire_date pattern; else unknown
GuessTablePurpose(table_name, columns) ==
    LET lowered == Lower(table_name)
        hit(i) == ReSearch(table_patterns[i].patterns, lowered)
        colhit(i) == \E c \in 1..Len(columns) :
                        ReSearch(column_patterns[i].patterns, Lower(columns[c].name))
    IN  IF \E i \in 1..Len(table_patterns) : hit(i)
        THEN table_patterns[CHOOSE i \in 1..Len(table_patterns) :
                                hit(i) /\ \A j \in 1..(i - 1) : ~hit(j)].purpose
        ELSE IF \E i \in 1..Len(column_patterns) :
                    /\ column_patterns[i].purpose \in
                           {"name", "salary", "department", "hire_date", "email", "phone"}
                    /\ colhit(i)
             THEN "employee"
             ELSE "unknown"

\* the tables of the given purpose, in schema order
TablesOfPurpose(tables, purposes) ==
    LET named == [i \in 1..Len(tables) |-> tables[i].name]
        idx == SelectSeq([i \in 1..Len(tables) |-> i], LAMBDA i : tables[i].purpose \in purposes)
    IN  [k \in 1..Len(idx) |-> named[idx[k]]]

\* _analyze_table_purposes
AnalyzeTablePurposes(tables) ==
    [employee_tables   |-> TablesOfPurpose(tables, {"employee"}),
     department_tables |-> TablesOfPurpose(tables, {"department"}),
     document_tables   |-> TablesOfPurpose(tables, {"document"}),
     project_tables    |-> TablesOfPurpose(tables, {"project"}),
     other_tables      |-> TablesOfPurpose(tables, {"salary", "leave", "unknown"})]

\* the last element of a non-empty sequence that satisfies P
LastWhere(seq, P(_)) ==
    seq[CHOOSE i \in 1..Len(seq) : P(seq[i]) /\ \A j \in (i + 1)..Len(seq) : ~P(seq[j])]

\* map_natural_language_to_schema: a later match overwrites an earlier one
MapNaturalLanguageToSchema(query, schema) ==
    LET query_lower == Lower(query)
        tables == schema.tables
        table_hits == Concat([t \in 1..Len(tables) |->
            Concat([p \in 1..Len(TablePatternsOf(tables[t].purpose)) |->
                IF Contains(query_lower, TablePatternsOf(tables[t].purpose)[p])
                THEN <<[type |-> "table", entity |-> tables[t].purpose,
                        mapped_to |-> tables[t].name]>>
                ELSE <<>>])])
        column_hits == Concat([t \in 1..Len(tables) |->
            Concat([c \in 1..Len(tables[t].columns) |->
                Concat([e \in 1..Len(column_patterns) |->
                    Concat([p \in 1..Len(column_patterns[e].patterns) |->
                        IF /\ Contains(Lower(tables[t].columns[c].name), column_patterns[e].patterns[p])
                           /\ Contains(query_lower, column_patterns[e].patterns[p])
                        THEN <<[type |-> "column", entity |-> column_patterns[e].purpose,
                                table |-> tables[t].name, column |-> tables[t].columns[c].name,
                                mapped_to |-> tables[t].name \o "." \o tables[t].columns[c].name]>>
                        ELSE <<>>])])])])
        table_keys == {table_hits[i].entity : i \in 1..Len(table_hits)}
        column_keys == {column_hits[i].entity : i \in 1..Len(column_hits)}
    IN  [table_mappings |->
            [k \in table_keys |-> LastWhere(table_hits, LAMBDA h : h.entity = k).mapped_to],
         column_mappings |->
            [k \in column_keys |->
                LET h == LastWhere(column_hits, LAMBDA x : x.entity = k)
                IN  [table |-> h.table, column |-> h.column]],
         detected_entities |->
            [i \in 1..Len(table_hits) |-> table_hits[i]] \o
            [i \in 1..Len(column_hits) |->
                [type |-> "column", entity |-> column_hits[i].entity,
                 mapped_to |-> column_hits[i].mapped_to]]]

(***************************************************************************)
(* The target stores.  A connection string names a database; what a store  *)
(* holds is fixed, whether it answers is the environment's choice (env).   *)
(***************************************************************************)
ConnStrings == {"postgresql://hr", "postgresql://ops"}

\* the stores discovery is called on directly: those of the route, a store of
\* two tables, and the store the configuration names by default
\* (config.py: database_url = "sqlite:///./test.db")
DiscoveryStores == <<"postgresql://hr", "postgresql://ops", "postgresql://crm", "sqlite:///./test.db">>

Column(name, pk) == [name |-> name, type |-> "VARCHAR", nullable |-> ~pk, primary_key |-> pk]

\* the rows each table of the store holds
StoreRows(connection_string) == IF connection_string = "postgresql://hr" THEN 2 ELSE 1

\* _get_sample_data(engine, table, limit=3)
SampleLimit == 3

\* the tables the inspector lists for a connection string, with their columns
DatabaseTables(connection_string) ==
    IF connection_string = "postgresql://hr"
    THEN << [name |-> "employees",
             columns |-> << Column("id", TRUE), Column("name", FALSE),
                            Column("department", FALSE), Column("salary", FALSE) >>] >>
    ELSE IF connection_string = "postgresql://ops"
    THEN << [name |-> "projects",
             columns |-> << Column("id", TRUE), Column("title", FALSE) >>] >>
    ELSE IF connection_string = "postgresql://org"
    THEN << [name |-> "staff",
             columns |-> << Column("id", TRUE), Column("name", FALSE) >>],
            [name |-> "projects",
             columns |-> << Column("id", TRUE), Column("title", FALSE) >>],
            [name |-> "workers",
             columns |-> << Column("id", TRUE), Column("name", FALSE) >>] >>
    ELSE << [name |-> "accounts",
             columns |-> << Column("code", TRUE), Column("owner_id", FALSE) >>],
            [name |-> "owners",
             columns |-> << Column("id", TRUE), Column("email", FALSE) >>] >>

\* SELECT version() and SELECT current_database() are functions of
\* PostgreSQL; SQLite has neither
HasDatabaseInfo(connection_string) == MatchesAt(connection_string, "postgresql", 1)

\* _guess_primary_key: the key the inspector reports, else a column named id,
\* code or key, else the first column, else 'id'
GuessPrimaryKey(table_info) ==
    LET columns == Get(table_info, "columns", <<>>)
        usual == SelectSeq(columns, LAMBDA col : Lower(col.name) \in {"id", "code", "key"})
    IN  IF Get(table_info, "primary_key", <<>>) # <<>> THEN table_info.primary_key
        ELSE IF usual # <<>> THEN <<usual[1].name>>
        ELSE IF columns # <<>> THEN <<columns[1].name>>
        ELSE <<"id">>

\* a target that must be the singular name itself
TargetMatchesSingular(target_lower, potential_target) == target_lower = potential_target

\* the test of a table name against the stem of a column that ends in _id
TargetMatches(target_lower, potential_target) ==
    \/ target_lower = potential_target
    \/ target_lower = potential_target \o "s"
    \/ Contains(target_lower, potential_target)

ImplicitRelationship(table, column, target, confidence) ==
    [from_table |-> table.name, from_column |-> <<column.name>>,
     to_table |-> target.name, to_column |-> GuessPrimaryKey(target),
     type |-> "implicit", confidence |-> confidence]

\* the relationships of one column: to the tables its stem names when it
\* ends in _id, then to the department tables when it mentions dept
ColumnRelationships(tables, table, column, col_name) ==
    (IF Len(col_name) >= 3 /\ SubSeq(col_name, Len(col_name) - 2, Len(col_name)) = "_id"
     THEN Concat([u \in 1..Len(tables) |->
              IF TargetMatches(Lower(tables[u].name), SubSeq(col_name, 1, Len(col_name) - 3))
              THEN <<ImplicitRelationship(table, column, tables[u], "medium")>>
              ELSE <<>>])
     ELSE <<>>)
    \o
    (IF Contains(col_name, "dept") \/ Contains(col_name, "department")
     THEN Concat([u \in 1..Len(tables) |->
              IF Contains(Lower(tables[u].name), "department")
              THEN <<ImplicitRelationship(table, column, tables[u], "high")>>
              ELSE <<>>])
     ELSE <<>>)

\* _discover_implicit_relationships
DiscoverImplicitRelationships(tables) ==
    Concat([t \in 1..Len(tables) |->
        Concat([c \in 1..Len(tables[t].columns) |->
            ColumnRelationships(tables, tables[t], tables[t].columns[c],
                                Lower(tables[t].columns[c].name))])])

\* _discover_data_relationships: every column that looks like an identifier,
\* paired with the key columns of every other table; nothing when the
\* sampling of the values fails
DiscoverDataRelationships(tables, data_ok) ==
    IF ~data_ok THEN <<>>
    ELSE Concat([t \in 1..Len(tables) |->
        Concat([c \in 1..Len(tables[t].columns) |->
            IF AnyIn(<<"id", "key", "code">>, Lower(tables[t].columns[c].name))
            THEN Concat([u \in 1..Len(tables) |->
                     IF u = t THEN <<>>
                     ELSE LET pk_columns == SelectSeq(tables[u].columns, LAMBDA col :
                                  col.primary_key \/ Lower(col.name) \in {"id", "code"})
                          IN  [k \in 1..Len(pk_columns) |->
                                  [from_table |-> tables[t].name,
                                   from_column |-> <<tables[t].columns[c].name>>,
                                   to_table |-> tables[u].name,
                                   to_column |-> <<pk_columns[k].name>>,
                                   type |-> "inferred", confidence |-> "low"]]])
            ELSE <<>>])])

\* _discover_relationships: the declared foreign keys (the stores of the
\* model declare none), then the implicit and the inferred relationships
DiscoverRelationships(tables, data_ok) ==
    DiscoverImplicitRelationships(tables) \o DiscoverDataRelationships(tables, data_ok)

\* what schema_info holds for one table: the columns, the key and the sample
\* rows, each empty when its introspection fails, and the purpose
TableInfo(listed, rows, env) ==
    LET columns == IF Get(env, "columns_ok", TRUE) THEN listed.columns ELSE <<>>
        keyed == SelectSeq(listed.columns, LAMBDA col : col.primary_key)
    IN  [name |-> listed.name,
         columns |-> columns,
         primary_key |-> IF Get(env, "keys_ok", TRUE)
                         THEN [i \in 1..Len(keyed) |-> keyed[i].name]
                         ELSE <<>>,
         samples |-> IF ~Get(env, "samples_ok", TRUE) THEN 0
                     ELSE IF rows < SampleLimit THEN rows ELSE SampleLimit,
         purpose |-> GuessTablePurpose(listed.name, columns)]

\* analyze_database: the connectivity probe, the database-info queries, the
\* enumeration of the tables by the inspector or else by the catalog query,
\* one entry per table, the relationships and the purposes at schema level
AnalyzeDatabase(connection_string, env) ==
    IF env.construct = "probe_fails"
    THEN [ok |-> FALSE, error |-> "Database connection failed: unreachable"]
    ELSE IF env.construct = "info_fails" \/ ~HasDatabaseInfo(connection_string)
    THEN [ok |-> FALSE, error |-> "Database connection failed: no such function: version"]
    ELSE IF Get(env, "enumeration", "inspector") = "none"
    THEN [ok |-> TRUE,
          value |-> [tables |-> <<>>, relationships |-> <<>>, table_purposes |-> <<>>]]
    ELSE LET listed == DatabaseTables(connection_string)
             tables == [i \in 1..Len(listed) |->
                           TableInfo(listed[i], StoreRows(connection_string), env)]
         IN  [ok |-> TRUE,
              value |-> [tables |-> tables,
                         relationships |-> DiscoverRelationships(tables, Get(env, "data_ok", TRUE)),
                         table_purposes |-> AnalyzeTablePurposes(tables)]]

\* schema['tables'][name]
TableNamed(schema, name) ==
    schema.tables[CHOOSE i \in 1..Len(schema.tables) : schema.tables[i].name = name]

(***************************************************************************)
(* The structured-query translator.  A generator yields                    *)
(* [ok |-> TRUE, value |-> statement] or, where the code raises,           *)
(* [ok |-> FALSE, error |-> message].                                      *)
(***************************************************************************)
\* mapping['table_mappings'].get('employee'), else the first employee table of
\* the schema, else None
EmployeeTable(schema, mapping) ==
    IF "employee" \in DOMAIN mapping.table_mappings /\ mapping.table_mappings["employee"] # ""
    THEN <<mapping.table_mappings["employee"]>>
    ELSE IF Len(schema.table_purposes.employee_tables) > 0
         THEN <<schema.table_purposes.employee_tables[1]>>
         ELSE <<>>

\* a count that falls back to a table named employees
GenerateCountQueryDefaulted(schema, query, mapping) ==
    LET employee_table == EmployeeTable(schema, mapping)
    IN  [ok |-> TRUE,
         value |-> "SELECT COUNT(*) as count FROM "
                       \o (IF employee_table # <<>> THEN employee_table[1] ELSE "employees")]

\* _generate_count_query
GenerateCountQuery(schema, query, mapping) ==
    LET employee_table == EmployeeTable(schema, mapping)
    IN  IF employee_table # <<>>
        THEN [ok |-> TRUE, value |-> "SELECT COUNT(*) as count FROM " \o employee_table[1]]
        ELSE [ok |-> FALSE, error |-> "No employee table found for count query"]

\* _generate_avg_query, _generate_max_query, _generate_min_query
GenerateSalaryQuery(func, alias, word, mapping) ==
    IF "salary" \in DOMAIN mapping.column_mappings
    THEN LET salary_mapping == mapping.column_mappings["salary"]
         IN  [ok |-> TRUE,
              value |-> "SELECT " \o func \o "(" \o salary_mapping.column \o ") as "
                            \o alias \o " FROM " \o salary_mapping.table]
    ELSE [ok |-> FALSE, error |-> "No salary column found for " \o word \o " query"]

\* an average computed as a sum
GenerateAvgQueryAsSum(query, mapping) ==
    GenerateSalaryQuery("SUM", "average_salary", "average", mapping)

GenerateAvgQuery(query, mapping) == GenerateSalaryQuery("AVG", "average_salary", "average", mapping)

GenerateMaxQuery(query, mapping) == GenerateSalaryQuery("MAX", "max_salary", "max", mapping)

GenerateMinQuery(query, mapping) == GenerateSalaryQuery("MIN", "min_salary", "min", mapping)

\* a department filter whose value is the text of the query
BuildWhereClauseFromText(query, mapping, table) ==
    IF /\ Contains(Lower(query), "department")
       /\ "department" \in DOMAIN mapping.column_mappings
       /\ mapping.column_mappings["department"].table = table
    THEN mapping.column_mappings["department"].column \o " LIKE '%" \o query \o "%'"
    ELSE ""

\* _build_where_clause: the department filter (the skills filter adds nothing)
BuildWhereClause(query, mapping, table) ==
    IF /\ Contains(Lower(query), "department")
       /\ "department" \in DOMAIN mapping.column_mappings
       /\ mapping.column_mappings["department"].table = table
    THEN LET dept_match == ReSearchGroup(
                 <<"engineering", "sales", "marketing", "hr", "finance", "it">>, Lower(query))
         IN  IF dept_match # <<>>
             THEN mapping.column_mappings["department"].column
                      \o " LIKE '%" \o dept_match[1] \o "%'"
             ELSE ""
    ELSE ""

\* _generate_select_query
GenerateSelectQuery(schema, query, mapping) ==
    LET employee_table == EmployeeTable(schema, mapping)
    IN  IF employee_table # <<>>
        THEN LET columns == TableNamed(schema, employee_table[1]).columns
                 column_names == [i \in 1..Len(columns) |-> columns[i].name]
                 where_clause == BuildWhereClause(query, mapping, employee_table[1])
                 sql == "SELECT " \o Join(column_names, ", ") \o " FROM " \o employee_table[1]
             IN  [ok |-> TRUE,
                  value |-> (IF where_clause # "" THEN sql \o " WHERE " \o where_clause ELSE sql)
                                \o " LIMIT 100"]
        ELSE [ok |-> FALSE, error |-> "No suitable table found for select query"]

\* _generate_sql_from_natural_language: the first intent, in this order, whose
\* pattern occurs in the lowercased text
GenerateSqlFromNaturalLanguage(schema, query, mapping) ==
    LET query_lower == Lower(query)
    IN  IF ReSearch(<<"how many", "count">>, query_lower)
        THEN GenerateCountQuery(schema, query_lower, mapping)
        ELSE IF ReSearch(<<"average", "avg", "mean">>, query_lower)
        THEN GenerateAvgQuery(query_lower, mapping)
        ELSE IF ReSearch(<<"list", "show", "display">>, query_lower)
        THEN GenerateSelectQuery(schema, query_lower, mapping)
        ELSE IF ReSearch(<<"max", "maximum", "highest">>, query_lower)
        THEN GenerateMaxQuery(query_lower, mapping)
        ELSE IF ReSearch(<<"min", "minimum", "lowest">>, query_lower)
        THEN GenerateMinQuery(query_lower, mapping)
        ELSE GenerateSelectQuery(schema, query_lower, mapping)

\* sqlparse.format(sql, reindent=True, keyword_case='upper'): keywords in upper
\* case and each clause on a line of its own (the layout of a column list is
\* left as it is)
SqlFormat(sql) ==
    ReplaceAll(ReplaceAll(ReplaceAll(ReplaceAll(sql,
        " as ", " AS "), " FROM ", "\nFROM "), " WHERE ", "\nWHERE "), " LIMIT ", "\nLIMIT ")

\* a safety pass that appends the row cap to every statement
OptimizeSqlQueryAlwaysCapped(sql) == SqlFormat(sql) \o " LIMIT 100"

\* optimize_sql_query: a row cap for a SELECT that has none and no aggregate
OptimizeSqlQuery(sql) ==
    LET formatted_sql == SqlFormat(sql)
        upper == Upper(formatted_sql)
    IN  IF /\ Contains(upper, "SELECT")
           /\ ~Contains(upper, "LIMIT")
           /\ ~AnyIn(<<"COUNT", "AVG", "SUM", "MAX", "MIN">>, upper)
        THEN formatted_sql \o " LIMIT 100"
        ELSE formatted_sql

\* _execute_sql_query at the store: an aggregate without grouping yields one
\* row, a projection the rows the table holds
ExecuteSqlQuery(sql, store_rows, env) ==
    IF ~env.store_ok
    THEN [ok |-> FALSE, error |-> "SQL execution failed: store error"]
    ELSE IF AnyIn(<<"COUNT(", "AVG(", "MAX(", "MIN(">>, sql)
         THEN [ok |-> TRUE, value |-> <<[kind |-> "aggregate", rownum |-> 1]>>]
         ELSE [ok |-> TRUE, value |-> [i \in 1..store_rows |-> [kind |-> "row", rownum |-> i]]]

\* the try block of _process_sql_query, one operator for each statement of
\* it, with the stage that raised: the execution of the optimized statement
ExecuteOptimized(optimized_sql, mapping, store_rows, env) ==
    LET results == ExecuteSqlQuery(optimized_sql, store_rows, env)
    IN  IF ~results.ok
        THEN [stage |-> "execution", error |-> results.error]
        ELSE [stage |-> "ok", results |-> results.value,
              sql_generated |-> optimized_sql, mapping_used |-> mapping]

\* the safety pass over the generated statement, when one was generated
ExecuteGenerated(sql, mapping, store_rows, env) ==
    IF ~sql.ok
    THEN [stage |-> "translation", error |-> sql.error]
    ELSE ExecuteOptimized(OptimizeSqlQuery(sql.value), mapping, store_rows, env)

\* the generation of the statement from the mapping
ExecuteMapped(schema, query, mapping, store_rows, env) ==
    ExecuteGenerated(GenerateSqlFromNaturalLanguage(schema, query, mapping),
                     mapping, store_rows, env)

\* the mapping of the text to the schema
SqlAttempt(schema, query, store_rows, env) ==
    ExecuteMapped(schema, query, MapNaturalLanguageToSchema(query, schema), store_rows, env)

\* what _process_sql_query returns: the result of the try block, or the
\* except branch
SqlResult(attempt) ==
    IF attempt.stage = "ok"
    THEN [results |-> attempt.results,
          sql_generated |-> attempt.sql_generated,
          results_count |-> Len(attempt.results),
          mapping_used |-> attempt.mapping_used]
    ELSE [error |-> "SQL query processing failed: " \o attempt.error,
          results |-> <<>>,
          results_count |-> 0]

\* _process_sql_query
ProcessSqlQuery(schema, query, store_rows, env) ==
    SqlResult(SqlAttempt(schema, query, store_rows, env))

(***************************************************************************)
(* Semantic search over the fragment store (table document_chunks).        *)
(***************************************************************************)
SimilarityScale == 100      \* a similarity s is kept as s * 100
SimilarityThreshold == 20   \* similarity > 0.2
TopResults == 15            \* results[:15]
ContentLimit == 300         \* _truncate_content(chunk.content, 300)

\* the stored text of an embedding: a JSON array, an empty text, or a text
\* json.loads cannot parse
JsonEmbedding(vec) == [kind |-> "json", vec |-> vec]
EmptyEmbedding == [kind |-> "empty", vec |-> <<>>]
GarbageEmbedding == [kind |-> "garbage", vec |-> <<>>]

\* json.loads(chunk.embedding)
JsonLoads(embedding) ==
    IF embedding.kind = "json"
    THEN [ok |-> TRUE, value |-> embedding.vec]
    ELSE [ok |-> FALSE, error |-> "Expecting value"]

\* embedding_model.encode([query])[0]: the provider's vector for a text
Encode(query) ==
    IF Contains(Lower(query), "cv") THEN <<0, 5, 0, 0>> ELSE <<5, 0, 0, 0>>

RECURSIVE Dot(_, _)
\* np.dot(a, b)
Dot(a, b) == IF Len(a) = 0 THEN 0 ELSE a[1] * b[1] + Dot(Tail(a), Tail(b))

\* np.linalg.norm(a), the vectors of the model having a whole norm
Norm(a) == CHOOSE r \in 0..Dot(a, a) : r * r = Dot(a, a)

\* np.dot raises ValueError for two vectors of different lengths
Aligned(a, b) == Len(a) = Len(b)

\* _cosine_similarity, in hundredths
CosineSimilarity(a, b) == (SimilarityScale * Dot(a, b)) \div (Norm(a) * Norm(b))

\* _truncate_content
TruncateContent(content, max_length) ==
    IF Len(content) <= max_length THEN content
    ELSE SubSeq(content, 1, max_length) \o "..."

\* a loop body that keeps a chunk whose similarity is the threshold itself
ChunkResultAtThreshold(query_embedding, chunk) ==
    IF chunk.embedding.kind = "empty" THEN <<>>
    ELSE LET loaded == JsonLoads(chunk.embedding)
         IN  IF ~loaded.ok \/ ~Aligned(query_embedding, loaded.value) THEN <<>>
             ELSE LET similarity == CosineSimilarity(query_embedding, loaded.value)
                  IN  IF similarity >= SimilarityThreshold
                      THEN <<[document_id |-> chunk.document_id,
                              chunk_index |-> chunk.chunk_index,
                              content |-> TruncateContent(chunk.content, ContentLimit),
                              similarity |-> similarity,
                              tokens_count |-> chunk.tokens_count,
                              score_percentage |-> similarity]>>
                      ELSE <<>>

\* the loop body of _process_document_query for one chunk: the result it
\* appends, or nothing (no embedding, an embedding that does not parse, a
\* similarity that cannot be computed, a similarity at or below the threshold)
ChunkResult(query_embedding, chunk) ==
    IF chunk.embedding.kind = "empty" THEN <<>>
    ELSE LET loaded == JsonLoads(chunk.embedding)
         IN  IF ~loaded.ok \/ ~Aligned(query_embedding, loaded.value) THEN <<>>
             ELSE LET similarity == CosineSimilarity(query_embedding, loaded.value)
                  IN  IF similarity > SimilarityThreshold
                      THEN <<[document_id |-> chunk.document_id,
                              chunk_index |-> chunk.chunk_index,
                              content |-> TruncateContent(chunk.content, ContentLimit),
                              similarity |-> similarity,
                              tokens_count |-> chunk.tokens_count,
                              score_percentage |-> similarity]>>
                      ELSE <<>>

\* where x goes in a list sorted by descending similarity: after every element
\* whose similarity is at least its own
InsertBySimilarity(sorted, x) ==
    LET ahead == SelectSeq(sorted, LAMBDA r : r.similarity >= x.similarity)
        behind == SelectSeq(sorted, LAMBDA r : r.similarity < x.similarity)
    IN  ahead \o <<x>> \o behind

\* a sort that leaves the results in the order of the store
SortBySimilarityUnsorted(results) == results

RECURSIVE SortBySimilarity(_)
\* results.sort(key=lambda x: x['similarity'], reverse=True): a stable sort
SortBySimilarity(results) ==
    IF Len(results) = 0 THEN <<>>
    ELSE InsertBySimilarity(SortBySimilarity(SubSeq(results, 1, Len(results) - 1)),
                            results[Len(results)])

\* results[:n]
Take(results, n) == SubSeq(results, 1, IF Len(results) < n THEN Len(results) ELSE n)

\* a search that treats the empty store as any other store
ProcessDocumentQueryUnsignalled(query, chunks, env) ==
    IF ~env.search_ok
    THEN [error |-> "Document search failed: embedding provider error",
          results |-> <<>>,
          results_count |-> 0]
    ELSE LET query_embedding == Encode(query)
             results == Concat([i \in 1..Len(chunks) |-> ChunkResult(query_embedding, chunks[i])])
             final_results == Take(SortBySimilarity(results), TopResults)
         IN  [results |-> final_results,
              results_count |-> Len(final_results),
              search_method |-> "vector_similarity"]

\* _process_document_query
ProcessDocumentQuery(query, chunks, env) ==
    IF ~env.search_ok
    THEN [error |-> "Document search failed: embedding provider error",
          results |-> <<>>,
          results_count |-> 0]
    ELSE IF Len(chunks) = 0
    THEN [results |-> <<>>,
          results_count |-> 0,
          search_method |-> "vector_similarity",
          message |-> "No documents available for search"]
    ELSE LET query_embedding == Encode(query)
             results == Concat([i \in 1..Len(chunks) |-> ChunkResult(query_embedding, chunks[i])])
             final_results == Take(SortBySimilarity(results), TopResults)
         IN  [results |-> final_results,
              results_count |-> Len(final_results),
              search_method |-> "vector_similarity"]

(***************************************************************************)
(* Result fusion.                                                          *)
(***************************************************************************)
\* a fusion that lists the semantic results before the structured ones
CombineHybridResultsSwapped(sql_result, doc_result) ==
    LET sql_results == Get(sql_result, "results", <<>>)
        doc_results == Get(doc_result, "results", <<>>)
        sql_count == Get(sql_result, "results_count", 0)
        doc_count == Get(doc_result, "results_count", 0)
    IN  [results |-> doc_results \o sql_results,
         sql_results |-> sql_results,
         document_results |-> doc_results,
         sql_count |-> sql_count,
         document_count |-> doc_count,
         combined_count |-> sql_count + doc_count,
         results_count |-> sql_count + doc_count]

\* a fusion that counts the structured results alone
CombineHybridResultsSqlCounted(sql_result, doc_result) ==
    LET sql_results == Get(sql_result, "results", <<>>)
        doc_results == Get(doc_result, "results", <<>>)
        sql_count == Get(sql_result, "results_count", 0)
        doc_count == Get(doc_result, "results_count", 0)
    IN  [results |-> sql_results \o doc_results,
         sql_results |-> sql_results,
         document_results |-> doc_results,
         sql_count |-> sql_count,
         document_count |-> doc_count,
         combined_count |-> sql_count + doc_count,
         results_count |-> sql_count]

\* _combine_hybrid_results
CombineHybridResults(sql_result, doc_result) ==
    LET sql_results == Get(sql_result, "results", <<>>)
        doc_results == Get(doc_result, "results", <<>>)
        sql_count == Get(sql_result, "results_count", 0)
        doc_count == Get(doc_result, "results_count", 0)
    IN  [results |-> sql_results \o doc_results,
         sql_results |-> sql_results,
         document_results |-> doc_results,
         sql_count |-> sql_count,
         document_count |-> doc_count,
         combined_count |-> sql_count + doc_count,
         results_count |-> sql_count + doc_count]

(***************************************************************************)
(* The query cache: cachetools.TTLCache(maxsize, ttl), a list of links in  *)
(* insertion order, each with the time it expires.                         *)
(***************************************************************************)
CacheMaxSize == 1000    \* QueryCache(max_size=1000)
CacheTtl == 300         \* QueryCache(ttl=300)

\* a cache whose links never expire
LiveLinksForever(cache, t) == cache

\* the links that have not expired at time t
LiveLinks(cache, t) == SelectSeq(cache, LAMBDA link : t < link.expires)

\* QueryCache.get: the value of a live link, None (<<>>) otherwise
CacheGet(cache, key, t) ==
    LET found == SelectSeq(LiveLinks(cache, t), LAMBDA link : link.key = key)
    IN  IF Len(found) = 0 THEN <<>> ELSE <<found[1].value>>

\* a lookup that finds a live link makes it the most recently used one
CacheTouch(cache, key, t) ==
    IF CacheGet(cache, key, t) = <<>>
    THEN cache
    ELSE SelectSeq(cache, LAMBDA link : link.key # key)
             \o SelectSeq(cache, LAMBDA link : link.key = key)

\* QueryCache.set: expired links go, then the least recently used ones while
\* the cache is full, and the new link is the most recently used
CacheSet(cache, key, value, t) ==
    LET live == LiveLinks(cache, t)
        others == SelectSeq(live, LAMBDA link : link.key # key)
        room == IF Len(others) + 1 > CacheMaxSize
                THEN SubSeq(others, Len(others) + 2 - CacheMaxSize, Len(others))
                ELSE others
    IN  Append(room, [key |-> key, value |-> value, expires |-> t + CacheTtl])

(***************************************************************************)
(* The query engine.                                                       *)
(***************************************************************************)
\* the query texts of the model
QueryTexts == <<"how many employees", "show me resumes", "Python CV">>

QuerySet == {QueryTexts[i] : i \in 1..Len(QueryTexts)}

\* a question about the salaries, asked of the query route on its own
AverageQuery == "what is the average salary"

\* every text the engine is asked
KnownTexts == QueryTexts \o <<AverageQuery>>

TextSet == {KnownTexts[i] : i \in 1..Len(KnownTexts)}

\* hash(user_query): an integer of the text, distinct texts of the model
\* having distinct hashes
Hash(user_query) == CHOOSE i \in 1..Len(KnownTexts) : KnownTexts[i] = user_query

\* cache_key = f"query_{hash(user_query)}"
CacheKey(user_query) == "query_" \o ToString(Hash(user_query))

doc_keywords == <<"resume", "cv", "document", "file", "review", "report", "pdf", "skill", "experience">>

sql_keywords == <<"count", "average", "sum", "max", "min", "list", "show", "how many", "salary", "department">>

\* a classification that tests the text as written, not lowercased
ClassifyQueryTypeAsWritten(query) ==
    LET has_doc == AnyIn(doc_keywords, query)
        has_sql == AnyIn(sql_keywords, query)
    IN  IF has_doc /\ has_sql THEN "hybrid"
        ELSE IF has_doc THEN "document"
        ELSE "sql"

\* _classify_query_type
ClassifyQueryType(query) ==
    LET query_lower == Lower(query)
        has_doc == AnyIn(doc_keywords, query_lower)
        has_sql == AnyIn(sql_keywords, query_lower)
    IN  IF has_doc /\ has_sql THEN "hybrid"
        ELSE IF has_doc THEN "document"
        ELSE "sql"

\* a request during which no collaborator fails
NoFault == [construct |-> "ok", store_ok |-> TRUE, search_ok |-> TRUE, commit_ok |-> TRUE]

\* the schema discovery yields for a store when nothing fails, computed once
Discovered == [c \in ConnStrings |-> AnalyzeDatabase(c, NoFault).value]

\* QueryEngine.__init__: the schema of the store and an empty cache
NewQueryEngine(connection_string, env) ==
    LET schema == IF env.construct = "ok" /\ DOMAIN env = DOMAIN NoFault
                  THEN [ok |-> TRUE, value |-> Discovered[connection_string]]
                  ELSE AnalyzeDatabase(connection_string, env)
    IN  IF schema.ok
        THEN [ok |-> TRUE,
              value |-> [connection_string |-> connection_string,
                         schema |-> schema.value,
                         cache |-> <<>>]]
        ELSE [ok |-> FALSE, error |-> schema.error]

\* the row _log_query_history adds to query_history
HistoryRow(query_text, query_type, results_count, response_time, cache_hit, t) ==
    [query_text |-> query_text,
     query_type |-> query_type,
     results_count |-> results_count,
     response_time |-> response_time,
     cache_hit |-> IF cache_hit THEN 1 ELSE 0,
     executed_at |-> t]

\* (datetime.now() - start_time).total_seconds(), in units of one lane's run:
\* nothing for a cache hit, one unit for each lane a miss runs
Elapsed(lanes) == lanes

(***************************************************************************)
(* The documents the ingestion service stores, as chunks.                  *)
(***************************************************************************)
Chunk(document_id, chunk_index, embedding) ==
    [document_id |-> document_id, chunk_index |-> chunk_index,
     content |-> "chunk " \o ToString(chunk_index), embedding |-> embedding,
     tokens_count |-> 2]

Documents == {1, 2}

\* document 1: chunks that never pass for the vector <<5, 0, 0, 0>> (no
\* embedding, an unparsable one, similarities of -0.6, 0 and exactly 0.2);
\* document 2: sixteen chunks of similarities 0.8, 0.6, 1.0 and 0.4 to it
DocumentChunks(document_id) ==
    IF document_id = 1
    THEN << Chunk(1, 0, EmptyEmbedding), Chunk(1, 1, GarbageEmbedding),
            Chunk(1, 2, JsonEmbedding(<<-3, 4, 0, 0>>)),
            Chunk(1, 3, JsonEmbedding(<<0, 0, 5, 0>>)),
            Chunk(1, 4, JsonEmbedding(<<1, 2, 2, 4>>)) >>
    ELSE [i \in 1..16 |->
             Chunk(2, i - 1,
                   JsonEmbedding(<< <<4, 3, 0, 0>>, <<3, 4, 0, 0>>,
                                    <<5, 0, 0, 0>>, <<2, 1, 4, 2>> >>[((i - 1) % 4) + 1]))]

RECURSIVE StoreAfter(_)
\* table document_chunks once documents 1..n are stored
StoreAfter(n) == IF n = 0 THEN <<>> ELSE StoreAfter(n - 1) \o DocumentChunks(n)

(***************************************************************************)
(* What the environment decides for one request: whether discovery         *)
(* succeeds, and whether the store, the embedding provider and the commit  *)
(* of the history row do.                                                  *)
(***************************************************************************)

EnvChoices(registered, may_fail) ==
    {env \in [construct : {"ok", "probe_fails", "info_fails"},
              store_ok : BOOLEAN, search_ok : BOOLEAN, commit_ok : BOOLEAN] :
        /\ registered => env.construct = "ok"
        /\ env.construct # "ok" => env.store_ok /\ env.search_ok /\ env.commit_ok
        /\ ~may_fail => env = NoFault}

(***************************************************************************)
(* The lanes, tabulated.  TLC evaluates a definition without parameters    *)
(* once: the two lanes are tabulated over the connection strings, query    *)
(* texts and fragment stores of the model, and process_query looks its     *)
(* arguments up.                                                           *)
(***************************************************************************)
QueryTypeTable == [q \in TextSet |-> ClassifyQueryType(q)]

SqlLaneTable ==
    [c \in ConnStrings, q \in TextSet, ok \in BOOLEAN |->
        ProcessSqlQuery(Discovered[c], q, StoreRows(c), [store_ok |-> ok])]

SqlStageTable ==
    [c \in ConnStrings, q \in TextSet, ok \in BOOLEAN |->
        SqlAttempt(Discovered[c], q, StoreRows(c), [store_ok |-> ok]).stage]

DocLaneTable ==
    [n \in 0..Cardinality(Documents), q \in TextSet, ok \in BOOLEAN |->
        ProcessDocumentQuery(q, StoreAfter(n), [search_ok |-> ok])]

CacheKeyTable == [q \in TextSet |-> CacheKey(q)]

\* self._process_sql_query(user_query), the engine's schema being the one
\* discovery yields for its connection string
SqlLane(engine, user_query, env) ==
    SqlLaneTable[engine.connection_string, user_query, env.store_ok]

\* self._process_document_query(user_query, db_session), the session's table
\* document_chunks holding the chunks of the documents stored so far
DocLane(user_query, stored, env) == DocLaneTable[stored, user_query, env.search_ok]

(***************************************************************************)
(* process_query: what it returns or raises, the cache it leaves and the   *)
(* history rows it adds.                                                   *)
(***************************************************************************)
\* a cached result returned as it was stored, its flag and time not renewed
ServeCachedUnstamped(engine, cached_result) ==
    [outcome |-> "hit",
     result |-> cached_result,
     cache |-> engine.cache,
     logged |-> <<>>]

\* a hit that adds a history row of its own
ServeCachedLogged(engine, cached_result) ==
    [outcome |-> "hit",
     result |-> Merge(cached_result, [cache_hit |-> TRUE, response_time |-> Elapsed(0)]),
     cache |-> engine.cache,
     logged |-> <<HistoryRow("", cached_result.query_type, cached_result.results_count,
                             Elapsed(0), TRUE, 0)>>]

\* the return of a cached result
ServeCached(engine, cached_result) ==
    [outcome |-> "hit",
     result |-> Merge(cached_result, [cache_hit |-> TRUE, response_time |-> Elapsed(0)]),
     cache |-> engine.cache,
     logged |-> <<>>]

\* the lane, or the two lanes and their fusion, of a query type
Dispatch(engine, user_query, stored, env, query_type) ==
    IF query_type = "sql"
    THEN SqlLane(engine, user_query, env)
    ELSE IF query_type = "document"
    THEN DocLane(user_query, stored, env)
    ELSE CombineHybridResults(SqlLane(engine, user_query, env),
                              DocLane(user_query, stored, env))

\* a miss that stores its result only when it carries no error
StoreAndLogSuccessOnly(engine, user_query, t, env, query_type, result, response_time) ==
    LET final_result == Merge(result, [query_type |-> query_type,
                                       response_time |-> response_time,
                                       cache_hit |-> FALSE])
    IN  [outcome |-> "miss",
         result |-> final_result,
         cache |-> IF "error" \in DOMAIN result THEN engine.cache
                   ELSE CacheSet(engine.cache, CacheKeyTable[user_query], final_result, t),
         logged |-> <<HistoryRow(user_query, query_type, Get(result, "results_count", 0),
                                 response_time, FALSE, t)>>]

\* the stamped result, stored in the cache and then logged
StoreAndLog(engine, user_query, t, env, query_type, result, response_time) ==
    LET final_result == Merge(result, [query_type |-> query_type,
                                       response_time |-> response_time,
                                       cache_hit |-> FALSE])
        stored_cache == CacheSet(engine.cache, CacheKeyTable[user_query], final_result, t)
    IN  IF env.commit_ok
        THEN [outcome |-> "miss",
              result |-> final_result,
              cache |-> stored_cache,
              logged |-> <<HistoryRow(user_query, query_type,
                                      Get(result, "results_count", 0),
                                      response_time, FALSE, t)>>]
        ELSE [outcome |-> "raised",
              error |-> "history commit failed",
              cache |-> stored_cache,
              logged |-> <<>>]

\* the part of process_query after a miss
ComputeFresh(engine, user_query, stored, t, env, query_type) ==
    StoreAndLog(engine, user_query, t, env, query_type,
                Dispatch(engine, user_query, stored, env, query_type),
                Elapsed(IF query_type = "hybrid" THEN 2 ELSE 1))

\* the cache check of process_query: a result that is not None and not empty
Lookup(engine, user_query, stored, t, env, cached_result) ==
    IF cached_result # <<>> /\ DOMAIN cached_result[1] # {}
    THEN ServeCached([engine EXCEPT !.cache = CacheTouch(engine.cache,
                                                         CacheKeyTable[user_query], t)],
                     cached_result[1])
    ELSE ComputeFresh(engine, user_query, stored, t, env, QueryTypeTable[user_query])

\* process_query, for an engine at time t with `stored` documents in the
\* fragment store
ProcessQuery(engine, user_query, stored, t, env) ==
    Lookup(engine, user_query, stored, t, env,
           CacheGet(engine.cache, CacheKeyTable[user_query], t))

(***************************************************************************)
(* The query route.                                                        *)
(***************************************************************************)
\* the defaults QueryResponse gives the fields a result does not carry (a
\* field whose default is None stays absent)
ResponseDefaults ==
    [results |-> <<>>, cache_hit |-> FALSE, results_count |-> 0,
     sql_count |-> 0, document_count |-> 0, combined_count |-> 0]

\* lines 68-76 of the route: the required fields, then QueryResponse(**result)
QueryResponse(result) ==
    LET with_results == IF "results" \in DOMAIN result THEN result
                        ELSE Merge(result, [results |-> <<>>])
        with_count == IF "results_count" \in DOMAIN with_results THEN with_results
                      ELSE Merge(with_results, [results_count |-> Len(with_results.results)])
        with_flag == IF "cache_hit" \in DOMAIN with_count THEN with_count
                     ELSE Merge(with_count, [cache_hit |-> FALSE])
    IN  Merge(ResponseDefaults, with_flag)

\* an except branch that answers under the structured type, without message
ErrorResponseUntyped(message) ==
    Merge(ResponseDefaults,
          [results |-> <<>>, query_type |-> "sql", response_time |-> 0,
           cache_hit |-> FALSE, results_count |-> 0])

\* the except branch of the route
ErrorResponse(message) ==
    Merge(ResponseDefaults,
          [results |-> <<>>, query_type |-> "error", response_time |-> 0,
           cache_hit |-> FALSE, results_count |-> 0,
           error |-> "Query processing failed: " \o message])

(***************************************************************************)
(* State.                                                                  *)
(***************************************************************************)
VARIABLES
    query_engines,     \* the registry of the route: connection string -> engine
    stored,            \* documents whose chunks are in table document_chunks
    query_history,     \* the rows of table query_history
    now,               \* the clock, in seconds
    calls,             \* requests served so far
    faults,            \* requests during which a collaborator failed
    last,              \* the last request and what it returned
    probe,             \* the last direct call of a function of the engine
    handlers,          \* the event loop and the request handlers running on it
    ingestion_status,  \* the job table of the ingestion route: job id -> entry
    background         \* the background tasks of the ingestion route

vars == <<query_engines, stored, query_history, now, calls, faults, last, probe,
          handlers, ingestion_status, background>>

\* what the actions of the query service leave alone
concurrent == <<handlers, ingestion_status, background>>

\* the rows of table document_chunks
document_chunks == StoreAfter(stored)

\* the requests the server has accepted, each a task of the event loop
Tasks == 1..MaxTasks

\* a task the server has not created yet
IdleTask == [pc |-> "idle", connection_string |-> "", query_engine |-> 0]

\* the clock advances by half the cache's time-to-live
TickStep == CacheTtl \div 2

Init ==
    /\ query_engines = [c \in {} |-> {}]
    /\ stored = 0
    /\ query_history = <<>>
    /\ now = 0
    /\ calls = 0
    /\ faults = 0
    /\ last = [kind |-> "none"]
    /\ probe = [kind |-> "none"]
    /\ handlers = [running |-> 0,
                   task |-> [t \in Tasks |-> IdleTask],
                   registered |-> [c \in ConnStrings |-> {}]]
    /\ ingestion_status = <<>>
    /\ background = <<>>

\* a route whose engines share one cache
RespondSharedCache(connection_string, query, env, engine, out) ==
    /\ query_engines' =
           [c \in DOMAIN query_engines \cup {connection_string} |->
               [(IF c = connection_string THEN engine ELSE query_engines[c])
                   EXCEPT !.cache = out.cache]]
    /\ query_history' = query_history \o out.logged
    /\ last' = [kind |-> out.outcome,
                connection_string |-> connection_string,
                query |-> query, env |-> env,
                stored |-> stored, time |-> now,
                result |-> IF out.outcome = "raised" THEN <<>> ELSE <<out.result>>,
                response |-> IF out.outcome = "raised"
                             THEN ErrorResponse(out.error)
                             ELSE QueryResponse(out.result)]

\* the route once process_query has returned or raised
Respond(connection_string, query, env, engine, out) ==
    /\ query_engines' = (connection_string :> [engine EXCEPT !.cache = out.cache])
                            @@ query_engines
    /\ query_history' = query_history \o out.logged
    /\ last' = [kind |-> out.outcome,
                connection_string |-> connection_string,
                query |-> query, env |-> env,
                stored |-> stored, time |-> now,
                result |-> IF out.outcome = "raised" THEN <<>> ELSE <<out.result>>,
                response |-> IF out.outcome = "raised"
                             THEN ErrorResponse(out.error)
                             ELSE QueryResponse(out.result)]

\* the route once the engine is there, or its construction has raised
Serve(connection_string, query, env, built) ==
    IF ~built.ok
    THEN /\ last' = [kind |-> "construct_failed",
                     connection_string |-> connection_string,
                     query |-> query, env |-> env,
                     response |-> ErrorResponse(built.error)]
         /\ UNCHANGED <<query_engines, query_history>>
    ELSE Respond(connection_string, query, env, built.value,
                 ProcessQuery(built.value, query, stored, now, env))

\* a failure the environment chooses is one the request meets: of the store
\* when the structured lane executes a statement, of the provider when the
\* semantic lane runs, of the commit when a row is logged
Observable(connection_string, query, env) ==
    LET hit == /\ connection_string \in DOMAIN query_engines
               /\ CacheGet(query_engines[connection_string].cache,
                           CacheKeyTable[query], now) # <<>>
    IN  /\ ~env.store_ok => /\ ~hit
                             /\ QueryTypeTable[query] # "document"
                             /\ SqlStageTable[connection_string, query, FALSE] = "execution"
        /\ ~env.search_ok => ~hit /\ QueryTypeTable[query] # "sql"
        /\ ~env.commit_ok => ~hit

\* POST /api/query
Request(connection_string, query) ==
    /\ calls < MaxCalls
    /\ calls' = calls + 1
    /\ \E env \in EnvChoices(connection_string \in DOMAIN query_engines, faults < MaxFaults) :
         /\ Observable(connection_string, query, env)
         /\ faults' = IF env = NoFault THEN faults ELSE faults + 1
         /\ Serve(connection_string, query, env,
                  IF connection_string \in DOMAIN query_engines
                  THEN [ok |-> TRUE, value |-> query_engines[connection_string]]
                  ELSE NewQueryEngine(connection_string, env))
    /\ UNCHANGED <<stored, now, probe>>
    /\ UNCHANGED concurrent

\* the ingestion service stores the chunks of the next document
Ingest ==
    /\ stored < Cardinality(Documents)
    /\ stored' = stored + 1
    /\ UNCHANGED <<query_engines, query_history, now, calls, faults, last, probe>>
    /\ UNCHANGED concurrent

\* time passes; the clock is read against the links of the caches alone, so
\* it need not advance while no link is live
Tick ==
    /\ \E c \in DOMAIN query_engines : LiveLinks(query_engines[c].cache, now) # <<>>
    /\ now' = now + TickStep
    /\ UNCHANGED <<query_engines, stored, query_history, calls, faults, last, probe>>
    /\ UNCHANGED concurrent

Next ==
    \/ \E c \in ConnStrings : \E q \in QuerySet : Request(c, q)
    \/ Ingest
    \/ Tick

Spec == Init /\ [][Next]_vars

(***************************************************************************)
(* _classify_query_type called on its own, on texts made of one to         *)
(* MaxWords words of a vocabulary, one call after another.                 *)
(***************************************************************************)
MaxWords == 2

\* the vocabulary, and for each word whether it holds a keyword of
\* doc_keywords and whether it holds one of sql_keywords, read off the two
\* lists of the source: "resume" holds "sum"; no keyword has a space but
\* "how many", so none spans two words of a text
Vocabulary ==
    <<[word |-> "Resume",    doc |-> TRUE,  sql |-> TRUE],
      [word |-> "CV",        doc |-> TRUE,  sql |-> FALSE],
      [word |-> "skills",    doc |-> TRUE,  sql |-> FALSE],
      [word |-> "PDF",       doc |-> TRUE,  sql |-> FALSE],
      [word |-> "Salary",    doc |-> FALSE, sql |-> TRUE],
      [word |-> "how many",  doc |-> FALSE, sql |-> TRUE],
      [word |-> "MAX",       doc |-> FALSE, sql |-> TRUE],
      [word |-> "employees", doc |-> FALSE, sql |-> FALSE],
      [word |-> "Python",    doc |-> FALSE, sql |-> FALSE]>>

\* a phrase is numbered by its words, read as digits in base
\* Len(Vocabulary) + 1, the digit 0 standing for no word
Base == Len(Vocabulary) + 1

RECURSIVE Power(_, _)
Power(b, n) == IF n = 0 THEN 1 ELSE b * Power(b, n - 1)

Codes == 1..(Power(Base, MaxWords) - 1)

\* the n digits of a number in a base, and those of them that are not 0
Digits(code, base, n) == [i \in 1..n |-> (code \div Power(base, i - 1)) % base]

Chosen(code, base, n) == SelectSeq(Digits(code, base, n), LAMBDA d : d # 0)

PhraseOf(code) == Chosen(code, Base, MaxWords)

\* the number of the phrase with the words in the other order
ReverseCode(code) ==
    LET d == Digits(code, Base, MaxWords)
        Sum[i \in 0..MaxWords] ==
            IF i = 0 THEN 0 ELSE Sum[i - 1] + d[i] * Power(Base, MaxWords - i)
    IN  Sum[MaxWords]

\* the text of a phrase: its words, a space between two
TextOf(phrase) == Join([i \in 1..Len(phrase) |-> Vocabulary[phrase[i]].word], " ")

\* the phrases, their texts and _classify_query_type of each text, tabulated
PhraseTable == [code \in Codes |-> PhraseOf(code)]

TextTable == [code \in Codes |-> TextOf(PhraseTable[code])]

PhraseTypeTable == [code \in Codes |-> ClassifyQueryType(TextTable[code])]

ReverseTable == [code \in Codes |-> ReverseCode(code)]

\* self._classify_query_type(query), after the call before it
Classify(code) ==
    /\ probe' = [kind |-> "classify",
                 phrase |-> PhraseTable[code],
                 query |-> TextTable[code],
                 query_type |-> PhraseTypeTable[code],
                 reversed_type |-> PhraseTypeTable[ReverseTable[code]],
                 earlier |-> IF probe.kind = "classify" THEN <<probe.query_type>> ELSE <<>>]
    /\ UNCHANGED <<query_engines, stored, query_history, now, calls, faults, last>>
    /\ UNCHANGED concurrent

NextClassify == \E code \in Codes : Classify(code)

SpecClassify == Init /\ [][NextClassify]_vars

(***************************************************************************)
(* _process_document_query called on its own, over fragment stores made of *)
(* up to MaxBlocks blocks of chunks.                                        *)
(***************************************************************************)
MaxBlocks == 3

\* the embeddings of the chunks of a block; every vector of four dimensions
\* has norm 5
Blocks ==
    << << JsonEmbedding(<<5, 0, 0, 0>>), JsonEmbedding(<<4, 3, 0, 0>>),
          JsonEmbedding(<<4, 0, 3, 0>>), JsonEmbedding(<<3, 4, 0, 0>>),
          JsonEmbedding(<<3, 0, 4, 0>>), JsonEmbedding(<<1, 2, 2, 4>>) >>,
       << EmptyEmbedding, GarbageEmbedding,
          JsonEmbedding(<<1, 2, 2, 4>>), JsonEmbedding(<<0, 0, 5, 0>>),
          JsonEmbedding(<<-3, 4, 0, 0>>), JsonEmbedding(<<5, 5, 0>>) >>,
       << JsonEmbedding(<<4, 3, 0, 0>>), JsonEmbedding(<<4, 0, 3, 0>>),
          JsonEmbedding(<<4, 0, 0, 3>>), JsonEmbedding(<<4, -3, 0, 0>>),
          JsonEmbedding(<<4, 0, -3, 0>>), JsonEmbedding(<<4, 0, 0, -3>>) >>,
       << JsonEmbedding(<<2, 1, 4, 2>>), JsonEmbedding(<<2, 2, 4, 1>>),
          JsonEmbedding(<<3, 4, 0, 0>>), JsonEmbedding(<<4, 3, 0, 0>>),
          JsonEmbedding(<<5, 0, 0, 0>>), JsonEmbedding(<<0, 5, 0, 0>>) >> >>

BlockBase == Len(Blocks) + 1

StoreCodes == 0..(Power(BlockBase, MaxBlocks) - 1)

\* the rows of document_chunks when the blocks of a number are stored, one
\* document for each block
StoreOf(code) ==
    LET chosen == Chosen(code, BlockBase, MaxBlocks)
    IN  Concat([k \in 1..Len(chosen) |->
                   [i \in 1..Len(Blocks[chosen[k]]) |->
                       Chunk(k, i - 1, Blocks[chosen[k]][i])]])

SearchQueries == {"show me resumes", "Python CV"}

\* the stores and _process_document_query, tabulated
StoreTable == [code \in StoreCodes |-> StoreOf(code)]

SearchTable ==
    [code \in StoreCodes |->
        [query \in SearchQueries |->
            [ok \in BOOLEAN |->
                ProcessDocumentQuery(query, StoreTable[code], [search_ok |-> ok])]]]

\* self._process_document_query(query, db_session)
Search(code, query, ok) ==
    /\ probe' = [kind |-> "search",
                 chunks |-> StoreTable[code],
                 query |-> query,
                 search_ok |-> ok,
                 result |-> SearchTable[code][query][ok]]
    /\ UNCHANGED <<query_engines, stored, query_history, now, calls, faults, last>>
    /\ UNCHANGED concurrent

NextSearch == \E code \in StoreCodes : \E query \in SearchQueries : \E ok \in BOOLEAN :
                  Search(code, query, ok)

SpecSearch == Init /\ [][NextSearch]_vars

(***************************************************************************)
(* Properties of the query engine and of its route.                        *)
(***************************************************************************)
\* a step of the route: one more request served
Served == calls' = calls + 1

\* the fields of a result other than the cache flag and the elapsed time
Payload(result) ==
    [f \in DOMAIN result \ {"cache_hit", "response_time"} |-> result[f]]

\* the entry the previous request stored for its text is still in its window
\* (the cache holds fewer than CacheMaxSize entries, so none is evicted)
RepeatedInWindow ==
    /\ Served
    /\ last.kind = "miss"
    /\ last'.connection_string = last.connection_string
    /\ last'.query = last.query
    /\ now < last.time + CacheTtl

\* C1: when a request repeats the text of the request before it, on the same
\* engine and before the entry stored by the first has expired, the first
\* was computed (cache_hit false), the second is served from the cache
\* (cache_hit true) and carries the same results, the same results_count and
\* the same value in every other field but cache_hit and response_time,
\* whatever was ingested in between.
CacheIdempotence ==
    [][RepeatedInWindow =>
         /\ last'.kind = "hit"
         /\ last.result[1].cache_hit = FALSE
         /\ last'.result[1].cache_hit = TRUE
         /\ last'.result[1].results = last.result[1].results
         /\ last'.result[1].results_count = last.result[1].results_count
         /\ Payload(last'.result[1]) = Payload(last.result[1])
         /\ Payload(last'.response) = Payload(last.response)]_vars

\* a repeated text was served from the cache after a document was ingested
\* between the two requests: the answer is still the one of the empty store
CacheIdempotenceWitness ==
    /\ last.kind = "hit"
    /\ last.stored > 0
    /\ Len(query_history) = 1
    /\ query_history[1].query_text = last.query
    /\ "message" \in DOMAIN last.result[1]

\* the last row of table query_history
LastRow(history) == history[Len(history)]

\* C2: every request that process_query answers, computed or served from
\* the cache, adds exactly one row to query_history, and the row's cache_hit
\* is the cache_hit of the response.
HistoryRowPerResponse ==
    [][Served /\ last'.kind \in {"hit", "miss"} =>
         /\ Len(query_history') = Len(query_history) + 1
         /\ LastRow(query_history').cache_hit
                = (IF last'.response.cache_hit THEN 1 ELSE 0)]_vars

\* two requests were answered, the second from the cache, and query_history
\* holds one row
HistoryRowPerResponseWitness ==
    /\ calls = 2
    /\ last.kind = "hit"
    /\ last.response.cache_hit
    /\ Len(query_history) = 1
    /\ query_history[1].cache_hit = 0

\* the request the last response answers was classified hybrid
HybridAnswered ==
    /\ last.kind \in {"hit", "miss"}
    /\ last.response.query_type = "hybrid"

\* C3: the response to a hybrid query, whether the two lanes succeeded or
\* recovered from a failure, has combined_count = sql_count + document_count
\* = results_count, and its results are its sql_results followed by its
\* document_results, each being what its lane returned, in the lane's order.
HybridInvariant ==
    HybridAnswered =>
        /\ last.response.combined_count
               = last.response.sql_count + last.response.document_count
        /\ last.response.combined_count = last.response.results_count
        /\ last.response.results
               = last.response.sql_results \o last.response.document_results
        /\ last.kind = "miss" =>
               /\ last.response.sql_results
                      = SqlLaneTable[last.connection_string, last.query,
                                     last.env.store_ok].results
               /\ last.response.document_results
                      = DocLaneTable[last.stored, last.query,
                                     last.env.search_ok].results

\* a hybrid response with results of both lanes
HybridInvariantWitness ==
    /\ HybridAnswered
    /\ last.kind = "miss"
    /\ last.response.sql_count > 0
    /\ last.response.document_count > 0
    /\ last.response.sql_results # last.response.document_results

\* what failed during the last request
ConstructionFailed == last.kind = "construct_failed"

LoggingFailed == last.kind = "raised"

Computed == last.kind \in {"miss", "raised"}

TranslationFailed ==
    /\ Computed
    /\ QueryTypeTable[last.query] # "document"
    /\ SqlStageTable[last.connection_string, last.query, last.env.store_ok] = "translation"

ExecutionFailed ==
    /\ Computed
    /\ QueryTypeTable[last.query] # "document"
    /\ SqlStageTable[last.connection_string, last.query, last.env.store_ok] = "execution"

SearchFailed ==
    /\ Computed
    /\ QueryTypeTable[last.query] # "sql"
    /\ ~last.env.search_ok

LaneFailed == TranslationFailed \/ ExecutionFailed \/ SearchFailed

AnyFailure == ConstructionFailed \/ LoggingFailed \/ LaneFailed

\* the fields QueryResponse requires or defaults
StructurallyValid(response) ==
    /\ {"results", "query_type", "response_time", "cache_hit", "results_count"}
           \subseteq DOMAIN response
    /\ response.cache_hit \in BOOLEAN
    /\ response.results_count \in Nat

\* the response of the route's except branch
IsErrorResponse(response) ==
    /\ response.query_type = "error"
    /\ "error" \in DOMAIN response
    /\ response.error # ""
    /\ response.results = <<>>
    /\ response.results_count = 0

\* C4, as the route and the engine have it: every request gets a
\* structurally valid response.  A failure of the engine's construction or
\* of the history logging is answered with query_type "error", a non-empty
\* error, no results and results_count 0.  A failure of the translation, of
\* the execution at the store or of the semantic search is recovered inside
\* process_query: the response keeps the type the query was classified as;
\* under "sql" and "document" it has the lane's error, no results and
\* results_count 0, under "hybrid" it has the results of the two lanes.
FailureMapping ==
    last.kind # "none" =>
        /\ StructurallyValid(last.response)
        /\ ConstructionFailed \/ LoggingFailed => IsErrorResponse(last.response)
        /\ LaneFailed /\ ~LoggingFailed =>
               /\ last.response.query_type = QueryTypeTable[last.query]
               /\ last.response.query_type \in {"sql", "document", "hybrid"}
               /\ last.response.query_type # "hybrid" =>
                      /\ "error" \in DOMAIN last.response
                      /\ last.response.error # ""
                      /\ last.response.results = <<>>
                      /\ last.response.results_count = 0
               /\ last.response.query_type = "hybrid" =>
                      /\ last.response.sql_results
                             = SqlLaneTable[last.connection_string, last.query,
                                            last.env.store_ok].results
                      /\ last.response.document_results
                             = DocLaneTable[last.stored, last.query,
                                            last.env.search_ok].results

\* the translation failed and the response is of type "sql", with the error
FailureMappingWitness ==
    /\ TranslationFailed
    /\ last.kind = "miss"
    /\ last.response.query_type = "sql"
    /\ "error" \in DOMAIN last.response

\* C4 as stated: every failure during a request is answered with query_type
\* "error", a non-empty error, no results and results_count 0.
EveryFailureIsErrorResponse ==
    AnyFailure => IsErrorResponse(last.response)

\* C5: in the structured, the semantic and the hybrid lane, when the
\* translation fails, the statement fails at the store or the semantic
\* search fails, the result process_query returns has the error field set.
LaneFailureCarriesError ==
    LaneFailed /\ last.kind = "miss" =>
        /\ "error" \in DOMAIN last.result[1]
        /\ last.result[1].error # ""
        /\ "error" \in DOMAIN last.response

\* a hybrid query whose structured lane found no table to translate to: the
\* result stored, returned and answered has no error field
LaneFailureCarriesErrorWitness ==
    /\ TranslationFailed
    /\ last.kind = "miss"
    /\ last.result[1].query_type = "hybrid"
    /\ "error" \in DOMAIN SqlLaneTable[last.connection_string, last.query,
                                       last.env.store_ok]
    /\ "error" \notin DOMAIN last.result[1]
    /\ "error" \notin DOMAIN last.response

\* the two presence tests of a phrase, from the vocabulary
HasDocKeyword(phrase) == \E i \in 1..Len(phrase) : Vocabulary[phrase[i]].doc

HasSqlKeyword(phrase) == \E i \in 1..Len(phrase) : Vocabulary[phrase[i]].sql

\* C6: the type of a query is decided by two presence tests on its
\* lowercased text: a document keyword and a structured keyword give
\* "hybrid", a document keyword alone gives "document", anything else,
\* no keyword at all included, gives "sql"; the text with its words in the
\* other order gets the same type, and so does the text whatever was
\* classified before it.
ClassificationByPresence ==
    probe.kind = "classify" =>
        /\ probe.query_type
               = IF HasDocKeyword(probe.phrase) /\ HasSqlKeyword(probe.phrase)
                 THEN "hybrid"
                 ELSE IF HasDocKeyword(probe.phrase) THEN "document"
                 ELSE "sql"
        /\ probe.reversed_type = probe.query_type

\* each of the four cases of the two tests has been classified, after
\* another text
ClassifiedHybrid ==
    /\ probe.kind = "classify" /\ probe.earlier # <<>>
    /\ HasDocKeyword(probe.phrase) /\ HasSqlKeyword(probe.phrase)
    /\ probe.query_type = "hybrid"

ClassifiedDocumentAfterSql ==
    /\ probe.kind = "classify"
    /\ probe.query = "skills Python"
    /\ probe.earlier = <<"sql">>
    /\ probe.query_type = "document"

ClassificationByPresenceWitness ==
    /\ probe.kind = "classify"
    /\ probe.earlier = <<"hybrid">>
    /\ probe.query = "employees Python"
    /\ ~HasDocKeyword(probe.phrase) /\ ~HasSqlKeyword(probe.phrase)
    /\ probe.query_type = "sql"

\* "show me resumes" was computed over an empty fragment store, nothing
\* having failed
ResumesOnEmptyStore ==
    /\ last.kind = "miss"
    /\ last.query = "show me resumes"
    /\ last.stored = 0
    /\ last.env = NoFault

\* C7: with an empty fragment store, "show me resumes" is classified as
\* semantic ("document") and answered with results_count 0, the message
\* that no documents are available and no error field.
ResumesOnEmptyStoreIsSemantic ==
    ResumesOnEmptyStore =>
        /\ last.response.query_type = "document"
        /\ last.response.results_count = 0
        /\ "message" \in DOMAIN last.response
        /\ Contains(Lower(last.response.message), "no documents")
        /\ "error" \notin DOMAIN last.response

\* the query was answered as a hybrid one, with the rows of the structured
\* lane and without the message of the semantic lane
ResumesOnEmptyStoreWitness ==
    /\ ResumesOnEmptyStore
    /\ last.response.query_type = "hybrid"
    /\ last.response.results_count = 2
    /\ "message" \in DOMAIN DocLaneTable[last.stored, last.query, TRUE]
    /\ "message" \notin DOMAIN last.response

(***************************************************************************)
(* Properties of the semantic search.                                      *)
(***************************************************************************)
\* the similarity, in hundredths, of a chunk to the vector of a query: the
\* provider gives "Python CV" the second unit direction and "show me
\* resumes" the first, scaled by 5, and every embedding has norm 5
Scored(chunk, query) ==
    20 * chunk.embedding.vec[IF query = "Python CV" THEN 2 ELSE 1]

\* the chunks of the store searched whose embedding parses, has the four
\* dimensions of the query's and is at a similarity above 0.2
Eligible ==
    {i \in 1..Len(probe.chunks) :
        /\ probe.chunks[i].embedding.kind = "json"
        /\ Len(probe.chunks[i].embedding.vec) = 4
        /\ Scored(probe.chunks[i], probe.query) > 20}

\* result j is the result for chunk i
ResultFor(j, i) ==
    /\ probe.result.results[j].document_id = probe.chunks[i].document_id
    /\ probe.result.results[j].chunk_index = probe.chunks[i].chunk_index

\* the chunks that have a result
Kept == {i \in 1..Len(probe.chunks) : \E j \in 1..Len(probe.result.results) : ResultFor(j, i)}

\* C8: whatever the store and the query, every result of the semantic
\* search is the result of a chunk whose similarity is above 0.2 and carries
\* that similarity, there are at most 15 results, and they are the
\* top-scoring chunks among those above 0.2: min(15, number of such chunks)
\* of them, none scoring below a chunk that was left out.
ThresholdAndTop ==
    probe.kind = "search" =>
        /\ Len(probe.result.results) <= 15
        /\ probe.result.results_count = Len(probe.result.results)
        /\ \A j \in 1..Len(probe.result.results) :
               /\ probe.result.results[j].similarity > 20
               /\ \E i \in Eligible :
                      /\ ResultFor(j, i)
                      /\ probe.result.results[j].similarity
                             = Scored(probe.chunks[i], probe.query)
        /\ Cardinality(Kept) = Len(probe.result.results)
        /\ probe.search_ok =>
               Len(probe.result.results)
                   = IF Cardinality(Eligible) < 15 THEN Cardinality(Eligible) ELSE 15
        /\ \A i \in Eligible \ Kept : \A j \in 1..Len(probe.result.results) :
               Scored(probe.chunks[i], probe.query) <= probe.result.results[j].similarity

\* a search over a store with seventeen chunks above 0.2 and one at 0.2
\* exactly: fifteen results, the two chunks left out being above 0.2
ThresholdAndTopWitness ==
    /\ probe.kind = "search"
    /\ probe.search_ok
    /\ Cardinality(Eligible) = 17
    /\ Len(probe.result.results) = 15
    /\ \E i \in 1..Len(probe.chunks) :
           /\ probe.chunks[i].embedding.kind = "json"
           /\ Scored(probe.chunks[i], probe.query) = 20

\* the position in the store of the chunk of result j
PositionOf(j) == CHOOSE i \in 1..Len(probe.chunks) : ResultFor(j, i)

\* C9, as the sort has it: the results of the semantic search are in
\* descending order of similarity, an earlier result having a similarity at
\* least that of the next one; results of equal similarity stay in the order
\* of their chunks in the store.
SortedDescending ==
    probe.kind = "search" =>
        \A j \in 1..(Len(probe.result.results) - 1) :
            /\ probe.result.results[j].similarity
                   >= probe.result.results[j + 1].similarity
            /\ probe.result.results[j].similarity
                   = probe.result.results[j + 1].similarity
                   => PositionOf(j) < PositionOf(j + 1)

\* results out of the order of the store, two of them of equal similarity
SortedDescendingWitness ==
    /\ probe.kind = "search"
    /\ \E j \in 1..(Len(probe.result.results) - 1) :
           probe.result.results[j].similarity = probe.result.results[j + 1].similarity
    /\ \E j \in 1..(Len(probe.result.results) - 1) :
           PositionOf(j) > PositionOf(j + 1)

\* C9 as stated: of two consecutive results the earlier has a similarity
\* strictly greater than the later, whatever the store.
SortedStrictlyDescending ==
    probe.kind = "search" =>
        \A j \in 1..(Len(probe.result.results) - 1) :
            probe.result.results[j].similarity > probe.result.results[j + 1].similarity

\* what went wrong during the search: the provider gave no vector for the
\* query, or the similarity of some chunk could not be computed (its
\* embedding does not parse, or has not the dimensions of the query's)
ProviderFailed == ~probe.search_ok

ChunkFailed ==
    \E i \in 1..Len(probe.chunks) :
        \/ probe.chunks[i].embedding.kind = "garbage"
        \/ /\ probe.chunks[i].embedding.kind = "json"
           /\ Len(probe.chunks[i].embedding.vec) # 4

HasNoDocumentsMessage(result) ==
    /\ "message" \in DOMAIN result
    /\ Contains(Lower(result.message), "no documents")

HasError(result) == "error" \in DOMAIN result /\ result.error # ""

ZeroResults(result) == result.results = <<>> /\ result.results_count = 0

\* C10, as the search has it: on an empty store it returns zero results
\* with the message that no documents are available and no error; on a
\* store that is not empty and has no chunk above the threshold, zero
\* results with neither the message nor an error; when the provider fails to
\* embed the query, zero results with the error set and no message.  A chunk
\* whose similarity cannot be computed is skipped: the search goes on with
\* the other chunks and sets no error.
SearchOutcomes ==
    probe.kind = "search" =>
        /\ ProviderFailed =>
               /\ ZeroResults(probe.result)
               /\ HasError(probe.result)
               /\ "message" \notin DOMAIN probe.result
        /\ ~ProviderFailed /\ probe.chunks = <<>> =>
               /\ ZeroResults(probe.result)
               /\ HasNoDocumentsMessage(probe.result)
               /\ "error" \notin DOMAIN probe.result
        /\ ~ProviderFailed /\ probe.chunks # <<>> =>
               /\ "message" \notin DOMAIN probe.result
               /\ "error" \notin DOMAIN probe.result
               /\ Eligible = {} => ZeroResults(probe.result)
               /\ Eligible # {} => probe.result.results_count > 0

\* a store whose chunks are all at or below the threshold, without an
\* embedding or with one that cannot be compared: zero results, no message,
\* no error
SearchOutcomesWitness ==
    /\ probe.kind = "search"
    /\ ~ProviderFailed
    /\ probe.chunks # <<>>
    /\ ChunkFailed
    /\ Eligible = {}
    /\ ZeroResults(probe.result)
    /\ ~HasError(probe.result)

\* C10 as stated: the empty store, the store without a chunk above the
\* threshold and the embedding or similarity failure give the three
\* outcomes, the failure giving zero results with the error set and no
\* message.
SearchOutcomesAsStated ==
    probe.kind = "search" =>
        /\ ProviderFailed \/ ChunkFailed =>
               /\ ZeroResults(probe.result)
               /\ HasError(probe.result)
               /\ "message" \notin DOMAIN probe.result
        /\ ~ProviderFailed /\ ~ChunkFailed /\ probe.chunks = <<>> =>
               /\ ZeroResults(probe.result)
               /\ HasNoDocumentsMessage(probe.result)
               /\ "error" \notin DOMAIN probe.result
        /\ ~ProviderFailed /\ ~ChunkFailed /\ probe.chunks # <<>> /\ Eligible = {} =>
               /\ ZeroResults(probe.result)
               /\ "message" \notin DOMAIN probe.result
               /\ "error" \notin DOMAIN probe.result

(***************************************************************************)
(* First use of a connection string (routes/query.py:57-66), statement by  *)
(* statement.  The route is a coroutine of the server's one event loop     *)
(* (main.py: uvicorn.run without workers): a handler that has started      *)
(* keeps the loop until an awaited coroutine suspends or it returns, and   *)
(* requests that arrive meanwhile wait as tasks of the loop.               *)
(***************************************************************************)

\* an await that always hands the loop to another task
AwaitAlwaysSuspends(coroutine) == TRUE

\* QueryEngine.initialize (query_engine.py:32-34) builds the embedding model
\* in a plain call: its body has no await, so awaiting it runs it through
AwaitSuspends(coroutine) == coroutine # "initialize"

TaskAt(t, pc) == handlers.task[t].pc = pc /\ handlers.running \in {0, t}

Move(t, pc, query_engine, running) ==
    [handlers EXCEPT !.running = running,
                     !.task[t].pc = pc,
                     !.task[t].query_engine = query_engine]

\* the server accepts a request and creates its task
Arrive(t, connection_string) ==
    /\ handlers.task[t].pc = "idle"
    /\ \A u \in 1..(t - 1) : handlers.task[u].pc # "idle"
    /\ handlers' = [handlers EXCEPT !.task[t].pc = "check",
                                    !.task[t].connection_string = connection_string]
    /\ UNCHANGED query_engines

\* line 58: if request.connection_string not in query_engines; line 63 on else
CheckRegistry(t) ==
    /\ TaskAt(t, "check")
    /\ LET c == handlers.task[t].connection_string
       IN  handlers' = IF c \in DOMAIN query_engines
                       THEN Move(t, "process", query_engines[c].id, t)
                       ELSE Move(t, "construct", 0, t)
    /\ UNCHANGED query_engines

\* a route that registers a placeholder when the construction fails
ConstructRegisteringFailure(t, env) ==
    /\ TaskAt(t, "construct")
    /\ IF NewQueryEngine(handlers.task[t].connection_string, env).ok
       THEN /\ handlers' = Move(t, "initialize", t, t)
            /\ UNCHANGED query_engines
       ELSE /\ handlers' = Move(t, "failed", 0, 0)
            /\ query_engines' =
                   (handlers.task[t].connection_string :>
                       [id |-> t, connection_string |-> handlers.task[t].connection_string,
                        schema |-> <<>>, cache |-> <<>>]) @@ query_engines

\* line 59: query_engine = QueryEngine(request.connection_string); a failure
\* of the discovery is answered by the except branch
Construct(t, env) ==
    /\ TaskAt(t, "construct")
    /\ handlers' = IF NewQueryEngine(handlers.task[t].connection_string, env).ok
                   THEN Move(t, "initialize", t, t)
                   ELSE Move(t, "failed", 0, 0)
    /\ UNCHANGED query_engines

\* line 60: await query_engine.initialize(); the model load may fail
Initialize(t, ok) ==
    /\ TaskAt(t, "initialize")
    /\ handlers' = IF ok
                   THEN Move(t, "register", t, IF AwaitSuspends("initialize") THEN 0 ELSE t)
                   ELSE Move(t, "failed", 0, 0)
    /\ UNCHANGED query_engines

\* line 61: query_engines[request.connection_string] = query_engine
Register(t) ==
    /\ TaskAt(t, "register")
    /\ LET c == handlers.task[t].connection_string
           engine == NewQueryEngine(c, NoFault).value
       IN  /\ query_engines' = [k \in DOMAIN query_engines \cup {c} |->
                                   IF k = c THEN [id |-> t] @@ engine ELSE query_engines[k]]
           /\ handlers' = [Move(t, "process", t, t) EXCEPT
                              !.registered[c] = handlers.registered[c] \cup {t}]

\* lines 66-76: the engine the handler holds answers, and the handler returns
Answer(t) ==
    /\ TaskAt(t, "process")
    /\ handlers' = Move(t, "served", handlers.task[t].query_engine, 0)
    /\ UNCHANGED query_engines

NextFirstUse ==
    /\ \E t \in Tasks :
          \/ \E c \in ConnStrings : Arrive(t, c)
          \/ CheckRegistry(t)
          \/ \E construct \in {"ok", "probe_fails"} :
                Construct(t, [NoFault EXCEPT !.construct = construct])
          \/ \E ok \in BOOLEAN : Initialize(t, ok)
          \/ Register(t)
          \/ Answer(t)
    /\ UNCHANGED <<stored, query_history, now, calls, faults, last, probe,
                   ingestion_status, background>>

SpecFirstUse == Init /\ [][NextFirstUse]_vars

\* C11: in every interleaving of requests naming the same connection string,
\* at most one engine is ever registered for the connection string, and every
\* request that is answered is answered by that engine
SingleEnginePerConnection ==
    \A c \in ConnStrings :
        /\ Cardinality(handlers.registered[c]) <= 1
        /\ \A t \in Tasks :
              (handlers.task[t].pc = "served" /\ handlers.task[t].connection_string = c)
                  => /\ handlers.registered[c] = {handlers.task[t].query_engine}
                     /\ query_engines[c].id = handlers.task[t].query_engine

\* two requests for one connection string, the second accepted while the
\* first was constructing the engine, both answered by the first's engine
SingleEnginePerConnectionWitness ==
    /\ handlers.task[1].connection_string = "postgresql://hr"
    /\ handlers.task[2].connection_string = "postgresql://hr"
    /\ handlers.task[1].pc = "served" /\ handlers.task[2].pc = "served"
    /\ handlers.task[1].query_engine = 1 /\ handlers.task[2].query_engine = 1

(***************************************************************************)
(* Direct calls on one engine whose cache is close to its capacity:        *)
(* QueryCache.set for the answers of other texts, process_query for the    *)
(* texts of the model, and the clock of the cache.                         *)
(***************************************************************************)
MaxProbeCalls == 3

\* the keys of the answers to other texts
CrowdKeys == [i \in 1..(CacheMaxSize - 1) |-> "query_" \o ToString(Len(KnownTexts) + i)]

\* the links of len(CrowdKeys) calls of QueryCache.set at time t on a cache
\* that holds none of the keys: after each call the CacheMaxSize most
\* recently used live links are left
CacheSetCrowd(cache, t) ==
    LET live == LiveLinks(cache, t)
        all == live \o [i \in 1..Len(CrowdKeys) |->
                           [key |-> CrowdKeys[i],
                            value |-> [results_count |-> 0],
                            expires |-> t + CacheTtl]]
    IN  IF Len(all) > CacheMaxSize
        THEN SubSeq(all, Len(all) + 1 - CacheMaxSize, Len(all))
        ELSE all

\* the engine under test is constructed on the first call
ProbedEngine ==
    IF probe.kind = "cache"
    THEN probe.engine
    ELSE NewQueryEngine("postgresql://hr", NoFault).value

CacheProbe(engine, call, before, t, out) ==
    probe' = [kind |-> "cache", engine |-> engine, call |-> call,
              calls |-> (IF probe.kind = "cache" THEN probe.calls ELSE 0) + 1,
              before |-> before, time |-> t, out |-> out]

CanProbe == probe.kind = "none" \/ (probe.kind = "cache" /\ probe.calls < MaxProbeCalls)

\* cache.set for each of the other texts
Crowd ==
    /\ CanProbe
    /\ SelectSeq(ProbedEngine.cache, LAMBDA link : link.key = CrowdKeys[1]) = <<>>
    /\ CacheProbe([ProbedEngine EXCEPT !.cache = CacheSetCrowd(ProbedEngine.cache, now)],
                  "set", ProbedEngine.cache, now, <<>>)
    /\ UNCHANGED now

\* engine.process_query(query, db_session)
Process(query, out) ==
    /\ CanProbe
    /\ CacheProbe([ProbedEngine EXCEPT !.cache = out.cache],
                  query, ProbedEngine.cache, now, <<out>>)
    /\ UNCHANGED now

\* the timer of the cache
Age ==
    /\ probe.kind = "cache"
    /\ now < 2 * CacheTtl
    /\ now' = now + TickStep
    /\ UNCHANGED probe

NextCache ==
    /\ \/ Crowd
       \/ \E query \in QuerySet :
             Process(query, ProcessQuery(ProbedEngine, query, stored, now, NoFault))
       \/ Age
    /\ UNCHANGED <<query_engines, stored, query_history, calls, faults, last>>
    /\ UNCHANGED concurrent

SpecCache == Init /\ [][NextCache]_vars

\* the link of a key in a cache, whether it has expired or not
LinksOf(cache, key) == SelectSeq(cache, LAMBDA link : link.key = key)

\* the call was process_query for a text whose entry had expired
CalledAfterExpiry ==
    /\ probe.kind = "cache" /\ probe.call # "set"
    /\ LinksOf(probe.before, CacheKeyTable[probe.call]) # <<>>
    /\ LinksOf(probe.before, CacheKeyTable[probe.call])[1].expires <= probe.time

\* C12: a call of process_query at or after the time-to-live of the entry of
\* its text is a miss: cache_hit is false, the answer is computed and logged
\* anew and stored as a fresh entry; and the live entries of the cache never
\* exceed its capacity
LazyExpiry ==
    /\ probe.kind = "cache" => Len(LiveLinks(probe.engine.cache, now)) <= CacheMaxSize
    /\ CalledAfterExpiry =>
          LET out == probe.out[1]
              fresh == LinksOf(probe.engine.cache, CacheKeyTable[probe.call])
          IN  /\ out.outcome = "miss"
              /\ out.result.cache_hit = FALSE
              /\ Len(out.logged) = 1
              /\ Len(fresh) = 1
              /\ fresh[1].expires = probe.time + CacheTtl
              /\ fresh[1].value = out.result

\* a text asked again exactly one time-to-live after its answer was stored,
\* its fresh entry filling the cache to its capacity
LazyExpiryWitness ==
    /\ CalledAfterExpiry
    /\ LinksOf(probe.before, CacheKeyTable[probe.call])[1].expires = probe.time
    /\ Len(probe.engine.cache) = CacheMaxSize
    /\ Len(LiveLinks(probe.before, probe.time)) = CacheMaxSize - 1

\* a live entry was evicted: the call stored a new text in a full cache
EvictedForRoom ==
    /\ probe.kind = "cache" /\ probe.call # "set"
    /\ Len(LiveLinks(probe.before, probe.time)) = CacheMaxSize
    /\ LinksOf(probe.before, CacheKeyTable[probe.call]) = <<>>
    /\ Len(probe.engine.cache) = CacheMaxSize

(***************************************************************************)
(* The query route asked about the salaries, next to the count of the      *)
(* employees, with the cache, the clock and the ingestion of Spec.         *)
(***************************************************************************)
NextAverage ==
    \/ \E c \in ConnStrings : \E q \in {AverageQuery, QueryTexts[1]} : Request(c, q)
    \/ Ingest
    \/ Tick

SpecAverage == Init /\ [][NextAverage]_vars

\* the store of the last request has the one table employees(id, name,
\* department, salary), the text was the question about the average salary
\* and no collaborator has failed
AverageAsked ==
    /\ last.kind # "none"
    /\ last.query = AverageQuery
    /\ faults = 0
    /\ LET tables == Discovered[last.connection_string].tables
       IN  /\ Len(tables) = 1
           /\ tables[1].name = "employees"
           /\ [i \in 1..Len(tables[1].columns) |-> tables[1].columns[i].name]
                  = <<"id", "name", "department", "salary">>

\* C13: on a store whose one table is employees(id, name, department,
\* salary), "what is the average salary" is classified sql, translated to a
\* statement that takes AVG of column salary of table employees, and answered
\* with one row, query_type "sql" and no error
AverageSalary ==
    AverageAsked =>
        /\ QueryTypeTable[last.query] = "sql"
        /\ last.response.query_type = "sql"
        /\ "error" \notin DOMAIN last.response
        /\ last.response.sql_generated = "SELECT AVG(salary) AS average_salary\nFROM employees"
        /\ Len(last.response.results) = 1
        /\ last.response.results[1].kind = "aggregate"
        /\ last.response.results_count = 1

\* the question answered afresh, after its first answer has expired
AverageSalaryWitness ==
    /\ AverageAsked
    /\ last.kind = "miss"
    /\ last.time >= CacheTtl
    /\ Len(query_history) = 2

(***************************************************************************)
(* Direct calls of _guess_table_purpose, on table names and column lists   *)
(* whose matches are written down by hand.                                 *)
(***************************************************************************)
\* table names, each with the purposes one of whose patterns occurs in it
TableNames == <<
    [name |-> "Employees",      purposes |-> {"employee"}],
    [name |-> "STAFF_TEAMS",    purposes |-> {"employee", "department"}],
    [name |-> "user_docs",      purposes |-> {"employee", "document"}],
    [name |-> "workers",        purposes |-> {"employee", "project"}],
    [name |-> "Departments",    purposes |-> {"department"}],
    [name |-> "teamwork",       purposes |-> {"department", "project"}],
    [name |-> "Payroll",        purposes |-> {"salary"}],
    [name |-> "pay_files",      purposes |-> {"salary", "document"}],
    [name |-> "cv_holiday",     purposes |-> {"document", "leave"}],
    [name |-> "Tasks",          purposes |-> {"project"}],
    [name |-> "leave_requests", purposes |-> {"leave"}],
    [name |-> "vacation_work",  purposes |-> {"project", "leave"}],
    [name |-> "orders",         purposes |-> {}],
    [name |-> "Audit_Log",      purposes |-> {}] >>

\* column lists, each with whether a column has a name, salary, department,
\* hire-date, email or phone pattern in its name
ColumnLists == <<
    [names |-> <<>>,                       personal |-> FALSE],
    [names |-> <<"id", "title">>,          personal |-> FALSE],
    [names |-> <<"ID", "Key", "job_code">>, personal |-> FALSE],
    [names |-> <<"id", "Full_Name">>,      personal |-> TRUE],
    [names |-> <<"code", "Mobile">>,       personal |-> TRUE],
    [names |-> <<"role", "E_MAIL">>,       personal |-> TRUE],
    [names |-> <<"started">>,              personal |-> TRUE],
    [names |-> <<"num", "wages", "unit">>, personal |-> TRUE] >>

\* the order the purposes are tried in
PurposeOrder == <<"employee", "department", "salary", "document", "project", "leave">>

ColumnsOf(names) == [i \in 1..Len(names) |-> Column(names[i], i = 1)]

PurposeTable ==
    [n \in 1..Len(TableNames) |-> [c \in 1..Len(ColumnLists) |->
        GuessTablePurpose(TableNames[n].name, ColumnsOf(ColumnLists[c].names))]]

GuessPurpose(n, c) ==
    /\ probe' = [kind |-> "purpose", table |-> n, columns |-> c,
                 purpose |-> PurposeTable[n][c]]
    /\ UNCHANGED <<query_engines, stored, query_history, now, calls, faults, last>>
    /\ UNCHANGED concurrent

NextPurpose == \E n \in 1..Len(TableNames) : \E c \in 1..Len(ColumnLists) : GuessPurpose(n, c)

SpecPurpose == Init /\ [][NextPurpose]_vars

\* C14: the purpose of a table is the first of employee, department, salary,
\* document, project, leave one of whose patterns occurs in the lowercased
\* table name; when none does, employee if a column carries a name, salary,
\* department, hire-date, email or phone pattern and unknown otherwise; it is
\* always one of these seven values
PurposeByOrder ==
    probe.kind = "purpose" =>
        LET named == TableNames[probe.table].purposes
            first == CHOOSE i \in 1..(Len(PurposeOrder) + 1) :
                        /\ i <= Len(PurposeOrder) => PurposeOrder[i] \in named
                        /\ \A j \in 1..(i - 1) : PurposeOrder[j] \notin named
        IN  /\ probe.purpose = IF first <= Len(PurposeOrder)
                               THEN PurposeOrder[first]
                               ELSE IF ColumnLists[probe.columns].personal
                                    THEN "employee"
                                    ELSE "unknown"
            /\ probe.purpose \in {PurposeOrder[i] : i \in 1..Len(PurposeOrder)} \cup {"unknown"}

\* a table whose name says salary and document, with columns that say
\* employee: the name decides, and the earlier purpose wins
PurposeByOrderWitness ==
    /\ probe.kind = "purpose"
    /\ TableNames[probe.table].name = "pay_files"
    /\ ColumnLists[probe.columns].personal
    /\ probe.purpose = "salary"

(***************************************************************************)
(* Relationship resolution from column names                               *)
(* (_discover_implicit_relationships), called on schemas of two tables.    *)
(***************************************************************************)
\* table names, each with its lowercased form written by hand
RelationTables == <<
    [name |-> "dept",        lowered |-> "dept"],
    [name |-> "Depts",       lowered |-> "depts"],
    [name |-> "EMPLOYEES",   lowered |-> "employees"],
    [name |-> "departments", lowered |-> "departments"],
    [name |-> "orders",      lowered |-> "orders"],
    [name |-> "Reorders",    lowered |-> "reorders"] >>

\* column names, each with the stem X when the name reads X_id
RelationColumns == <<
    [name |-> "dept_id",       stem |-> <<"dept">>],
    [name |-> "Employee_ID",   stem |-> <<"employee">>],
    [name |-> "DEPARTMENT_id", stem |-> <<"department">>],
    [name |-> "order_id",      stem |-> <<"order">>],
    [name |-> "orderid",       stem |-> <<>>],
    [name |-> "id_order",      stem |-> <<>>],
    [name |-> "department",    stem |-> <<>>] >>

\* a schema of two tables: the first with a key and one more column, the
\* second with one column and no key
RelationSchema(n1, c1, n2, c2) ==
    << [name |-> RelationTables[n1].name,
        columns |-> <<Column("id", TRUE), Column(RelationColumns[c1].name, FALSE)>>,
        primary_key |-> <<"id">>],
       [name |-> RelationTables[n2].name,
        columns |-> <<Column(RelationColumns[c2].name, FALSE)>>,
        primary_key |-> <<>>] >>

RelationsTable ==
    [n1 \in 1..Len(RelationTables) |-> [c1 \in 1..Len(RelationColumns) |->
        [n2 \in 1..Len(RelationTables) |-> [c2 \in 1..Len(RelationColumns) |->
            DiscoverImplicitRelationships(RelationSchema(n1, c1, n2, c2))]]]]

Relate(n1, c1, n2, c2) ==
    /\ n1 # n2
    /\ probe' = [kind |-> "relations",
                 tables |-> <<n1, n2>>, columns |-> <<c1, c2>>,
                 relationships |-> RelationsTable[n1][c1][n2][c2]]
    /\ UNCHANGED <<query_engines, stored, query_history, now, calls, faults, last>>
    /\ UNCHANGED concurrent

NextRelations ==
    \E n1, n2 \in 1..Len(RelationTables) : \E c1, c2 \in 1..Len(RelationColumns) :
        Relate(n1, c1, n2, c2)

SpecRelations == Init /\ [][NextRelations]_vars

\* the schema has a column X_id in its table `from` and its table `to` is
\* named X or Xs
Refers(from, to) ==
    /\ probe.kind = "relations"
    /\ RelationColumns[probe.columns[from]].stem # <<>>
    /\ RelationTables[probe.tables[to]].lowered \in
           {RelationColumns[probe.columns[from]].stem[1],
            RelationColumns[probe.columns[from]].stem[1] \o "s"}

\* C15: whenever a table has a column X_id and a table X or Xs exists, an
\* implicit relationship of confidence medium or high leads from that column
\* to that table
ImplicitRelationshipFound ==
    \A from, to \in 1..2 :
        Refers(from, to) =>
            \E i \in 1..Len(probe.relationships) :
                LET r == probe.relationships[i]
                IN  /\ r.from_table = RelationTables[probe.tables[from]].name
                    /\ r.from_column = <<RelationColumns[probe.columns[from]].name>>
                    /\ r.to_table = RelationTables[probe.tables[to]].name
                    /\ r.type = "implicit"
                    /\ r.confidence \in {"medium", "high"}

\* a column Employee_ID of the keyless table Depts refers to table EMPLOYEES
ImplicitRelationshipFoundWitness ==
    /\ Refers(2, 1)
    /\ RelationTables[probe.tables[1]].name = "EMPLOYEES"
    /\ RelationTables[probe.tables[2]].name = "Depts"
    /\ RelationColumns[probe.columns[2]].name = "Employee_ID"
    /\ \E i \in 1..Len(probe.relationships) :
          /\ probe.relationships[i].to_table = "EMPLOYEES"
          /\ probe.relationships[i].to_column = <<"id">>

(***************************************************************************)
(* Direct calls of analyze_database, each step after the connectivity      *)
(* probe failing or not as the environment chooses.                        *)
(***************************************************************************)
\* what can fail during one discovery; the steps after the enumeration are
\* reached only when it lists tables
DiscoveryEnvs ==
    {env \in [construct : {"ok", "probe_fails", "info_fails"},
              enumeration : {"inspector", "catalog", "none"},
              columns_ok : BOOLEAN, keys_ok : BOOLEAN,
              samples_ok : BOOLEAN, data_ok : BOOLEAN] :
        /\ env.construct # "ok" => env.enumeration = "inspector"
        /\ env.construct # "ok" \/ env.enumeration = "none" =>
              env.columns_ok /\ env.keys_ok /\ env.samples_ok /\ env.data_ok}

DiscoveryTable ==
    [s \in 1..Len(DiscoveryStores) |-> [env \in DiscoveryEnvs |->
        AnalyzeDatabase(DiscoveryStores[s], env)]]

Discover(s, env) ==
    /\ probe' = [kind |-> "discovery", connection_string |-> DiscoveryStores[s],
                 env |-> env, result |-> DiscoveryTable[s][env]]
    /\ UNCHANGED <<query_engines, stored, query_history, now, calls, faults, last>>
    /\ UNCHANGED concurrent

NextDiscovery == \E s \in 1..Len(DiscoveryStores) : \E env \in DiscoveryEnvs : Discover(s, env)

SpecDiscovery == Init /\ [][NextDiscovery]_vars

\* C16: discovery fails only when the connectivity probe fails: whenever the
\* probe succeeds analyze_database returns a schema, whichever later step
\* fails
DiscoveryFailsOnlyOnProbe ==
    probe.kind = "discovery" =>
        (probe.result.ok <=> probe.env.construct # "probe_fails")

\* the store of the default configuration: the probe succeeds, nothing the
\* environment controls fails, and discovery raises
DiscoveryFailsOnInfo ==
    /\ probe.kind = "discovery"
    /\ probe.connection_string = "sqlite:///./test.db"
    /\ probe.env.construct = "ok"
    /\ ~probe.result.ok

\* once the database-info queries have answered, no later failure makes
\* discovery fail: the enumeration, the introspection of a table, the
\* sampling and the data analysis are each isolated
LaterFailuresIsolated ==
    (/\ probe.kind = "discovery"
     /\ probe.env.construct = "ok"
     /\ HasDatabaseInfo(probe.connection_string))
        => /\ probe.result.ok
           /\ probe.env.enumeration = "none" => probe.result.value.tables = <<>>
           /\ (probe.env.enumeration # "none" /\ ~probe.env.columns_ok)
                 => \A i \in 1..Len(probe.result.value.tables) :
                       probe.result.value.tables[i].columns = <<>>

(***************************************************************************)
(* The ingestion route (routes/ingestion.py): uploads, the background task *)
(* of each job, and polls.  The route and the tasks are coroutines of the  *)
(* one event loop: a task that has written "completed" runs on through the *)
(* cleanup without a suspension, so nothing else runs in between.          *)
(***************************************************************************)
\* the files a client uploads: a text file, a text file without content, and
\* a text file whose name leaves the temporary directory
FileNames == <<"notes.txt", "blank.txt", "../notes.txt">>

Batches == UNION {[1..n -> 1..Len(FileNames)] : n \in 1..MaxFiles}

\* process_documents: one entry per file, an error entry for a file whose
\* processing raised, and the two counts
ProcessDocuments(file_paths) ==
    LET documents == [i \in 1..Len(file_paths) |->
            IF FileNames[file_paths[i]] = "blank.txt"
            THEN [filename |-> "blank.txt", status |-> "error",
                  error |-> "No content extracted from document"]
            ELSE [filename |-> "notes.txt", status |-> "completed"]]
    IN  [processed |-> Len(SelectSeq(documents, LAMBDA d : d.status = "completed")),
         failed |-> Len(SelectSeq(documents, LAMBDA d : d.status = "error")),
         documents |-> documents]

\* os.rmdir(os.path.dirname(file_paths[0])) removes the temporary directory;
\* for a first file named ../x the directory named is the parent of the
\* temporary directory, which is not empty
RmdirRaises(file_paths) == MatchesAt(FileNames[file_paths[1]], "../", 1)

JobError(message) == [status |-> "error", error |-> message]

\* no task stands between its write of "completed" and the end of its run
LoopFree == \A j \in DOMAIN background : background[j].pc # "marked"

\* POST /documents: the files are saved, the job is entered as processing
\* and its task is added
Upload(files) ==
    /\ LoopFree
    /\ Len(ingestion_status) < MaxJobs
    /\ ingestion_status' = Append(ingestion_status,
           [status |-> "processing", total_files |-> Len(files),
            processed_files |-> 0, failed_files |-> 0, documents |-> <<>>])
    /\ background' = Append(background, [pc |-> "queued", file_paths |-> files, results |-> <<>>])
    /\ UNCHANGED probe

\* lines 113-121 up to the first read of a file: the processor, the session
\* and the embedding model, any of which may raise
StartJob(j, setup_ok) ==
    /\ LoopFree
    /\ background[j].pc = "queued"
    /\ IF setup_ok
       THEN /\ background' = [background EXCEPT ![j].pc = "reading"]
            /\ UNCHANGED ingestion_status
       ELSE /\ background' = [background EXCEPT ![j].pc = "done"]
            /\ ingestion_status' = [ingestion_status EXCEPT ![j] = JobError("model load failed")]
    /\ UNCHANGED probe

\* process_documents returns and lines 124-130 enter the job as completed
MarkCompleted(j) ==
    /\ LoopFree
    /\ background[j].pc = "reading"
    /\ LET results == ProcessDocuments(background[j].file_paths)
       IN  /\ background' = [background EXCEPT ![j].pc = "marked", ![j].results = <<results>>]
           /\ ingestion_status' = [ingestion_status EXCEPT ![j] =
                  [status |-> "completed",
                   total_files |-> Len(background[j].file_paths),
                   processed_files |-> results.processed,
                   failed_files |-> results.failed,
                   documents |-> results.documents]]
    /\ UNCHANGED probe

\* lines 132-140: the files and the directory are removed and the session is
\* closed; an exception of these is caught at line 142 like any other
Cleanup(j, close_ok) ==
    /\ background[j].pc = "marked"
    /\ background' = [background EXCEPT ![j].pc = "done"]
    /\ ingestion_status' =
           IF RmdirRaises(background[j].file_paths)
           THEN [ingestion_status EXCEPT ![j] = JobError("[Errno 39] Directory not empty")]
           ELSE IF ~close_ok
           THEN [ingestion_status EXCEPT ![j] = JobError("session close failed")]
           ELSE ingestion_status
    /\ UNCHANGED probe

\* GET /status/{job_id}
Poll(j) ==
    /\ LoopFree
    /\ probe' = [kind |-> "poll", job |-> j, status |-> ingestion_status[j].status,
                 earlier |-> IF probe.kind = "poll" /\ probe.job = j
                             THEN <<probe.status>> ELSE <<>>]
    /\ UNCHANGED <<ingestion_status, background>>

NextIngest ==
    /\ \/ \E files \in Batches : Upload(files)
       \/ \E j \in DOMAIN background :
             \/ \E setup_ok \in BOOLEAN : StartJob(j, setup_ok)
             \/ MarkCompleted(j)
             \/ \E close_ok \in BOOLEAN : Cleanup(j, close_ok)
             \/ Poll(j)
    /\ UNCHANGED <<query_engines, stored, query_history, now, calls, faults, last, handlers>>

SpecIngest == Init /\ [][NextIngest]_vars

JobStatuses == {"processing", "completed", "error"}

\* C17: the status of a job is always processing, completed or error; it is
\* processing when the job is issued, and a job that is completed or in error
\* never changes its status again
StatusStep ==
    /\ \A j \in DOMAIN ingestion_status' : ingestion_status'[j].status \in JobStatuses
    /\ \A j \in DOMAIN ingestion_status' \ DOMAIN ingestion_status :
          ingestion_status'[j].status = "processing"
    /\ \A j \in DOMAIN ingestion_status :
          ingestion_status[j].status # "processing"
              => ingestion_status'[j].status = ingestion_status[j].status

StatusChangesOnce == [][StatusStep]_vars

\* a job whose files were all processed and entered as completed ends in error
CompletedThenError ==
    \E j \in DOMAIN ingestion_status :
        /\ background[j].pc = "done"
        /\ background[j].results # <<>>
        /\ background[j].results[1].failed = 0
        /\ ingestion_status[j].status = "error"

\* what polls can see: a poll that follows a poll of the same job which saw
\* completed or error sees the same status
PolledStable ==
    (probe.kind = "poll" /\ probe.earlier # <<>> /\ probe.earlier[1] # "processing")
        => probe.status = probe.earlier[1]

\* C18: a job in error carries the failure message, and the outcomes of the
\* files that process_documents had already returned are still in its entry
FailedJobKeepsResults ==
    \A j \in DOMAIN ingestion_status :
        ingestion_status[j].status = "error"
            => /\ "error" \in DOMAIN ingestion_status[j]
               /\ background[j].results # <<>>
                      => /\ "documents" \in DOMAIN ingestion_status[j]
                         /\ ingestion_status[j].documents = background[j].results[1].documents

\* a job in error whose entry has lost the outcomes of its processed files
ResultsDiscarded ==
    \E j \in DOMAIN ingestion_status :
        /\ ingestion_status[j].status = "error"
        /\ ingestion_status[j].error # ""
        /\ background[j].results # <<>>
        /\ background[j].results[1].processed + background[j].results[1].failed
               = Len(background[j].file_paths)
        /\ "documents" \notin DOMAIN ingestion_status[j]

\* a job that failed before any file was processed is in error with the
\* message attached
FailedSetupReported ==
    \A j \in DOMAIN ingestion_status :
        (background[j].pc = "done" /\ background[j].results = <<>>)
            => ingestion_status[j] = JobError("model load failed")

(***************************************************************************)
(* Direct calls of _process_sql_query: texts that carry one intent, several *)
(* intents or none, against the schemas of three stores.                   *)
(***************************************************************************)
IntentTexts ==
    <<"how many employees", "count the average salary", "how many have the highest salary",
      AverageQuery, "average of the highest salary", "show the average salary",
      "show the highest salary", "list the lowest salary", "display the maximum salary",
      "highest salary", "highest and lowest salary", "lowest salary",
      "minimum pay", "average pay", "employees in the engineering department",
      "salary of everyone", "show me employees", "maximum salary">>

\* hr: an employee table with a salary column; ops: no employee table;
\* crm: an employee table without a salary column
TranslateStores == <<"postgresql://hr", "postgresql://ops", "postgresql://crm">>

\* the patterns of _generate_sql_from_natural_language, by intent
IntentPatterns ==
    [count |-> <<"how many", "count">>, average |-> <<"average", "avg", "mean">>,
     max |-> <<"max", "maximum", "highest">>, min |-> <<"min", "minimum", "lowest">>,
     list |-> <<"list", "show", "display">>]

\* the intents whose pattern occurs in the text
Intents(query) == {k \in DOMAIN IntentPatterns : ReSearch(IntentPatterns[k], Lower(query))}

\* the generator a result comes from, read from its statement or its message
KindOf(sql) ==
    LET text == IF sql.ok THEN sql.value ELSE sql.error
    IN  IF AnyIn(<<"COUNT(", "count query">>, text) THEN "count"
        ELSE IF AnyIn(<<"AVG(", "average query">>, text) THEN "average"
        ELSE IF AnyIn(<<"MAX(", "max query">>, text) THEN "max"
        ELSE IF AnyIn(<<"MIN(", "min query">>, text) THEN "min"
        ELSE "select"

\* one call of _process_sql_query, with what each statement of it produced
Translation(s, t, ok) ==
    LET schema == AnalyzeDatabase(TranslateStores[s], NoFault).value
        query == IntentTexts[t]
        mapping == MapNaturalLanguageToSchema(query, schema)
        sql == GenerateSqlFromNaturalLanguage(schema, query, mapping)
        attempt == ExecuteGenerated(sql, mapping, StoreRows(TranslateStores[s]), [store_ok |-> ok])
    IN  [kind |-> "translate", text |-> t, store |-> s, store_ok |-> ok,
         intents |-> Intents(query),
         salary_mapped |-> "salary" \in DOMAIN mapping.column_mappings,
         employee_table |-> EmployeeTable(schema, mapping),
         sql |-> sql, generated |-> KindOf(sql),
         executed |-> IF attempt.stage = "translation" THEN 0 ELSE 1,
         again |-> IF sql.ok THEN <<OptimizeSqlQuery(OptimizeSqlQuery(sql.value))>> ELSE <<>>,
         response |-> SqlResult(attempt)]

TranslationTable ==
    [s \in 1..Len(TranslateStores) |-> [t \in 1..Len(IntentTexts) |->
        [ok \in BOOLEAN |-> Translation(s, t, ok)]]]

Translate(s, t, ok) ==
    /\ probe' = TranslationTable[s][t][ok]
    /\ UNCHANGED <<query_engines, stored, query_history, now, calls, faults, last, concurrent>>

NextTranslate ==
    \E s \in 1..Len(TranslateStores), t \in 1..Len(IntentTexts), ok \in BOOLEAN : Translate(s, t, ok)

SpecTranslate == Init /\ [][NextTranslate]_vars

\* the statement kind the stated priority gives a set of intents
StatedKind(intents) ==
    IF "count" \in intents THEN "count"
    ELSE IF "average" \in intents THEN "average"
    ELSE IF "max" \in intents THEN "max"
    ELSE IF "min" \in intents THEN "min"
    ELSE "select"

\* C19: the statement kind is that of the first intent found in the text in
\* the order count, average, max/min, list/display, and the projection when
\* no intent is found
StatedPriority ==
    probe.kind = "translate" => probe.generated = StatedKind(probe.intents)

\* a text with a list/display intent and a max or min intent is answered by
\* the projection
ListBeforeMaxMin ==
    /\ probe.kind = "translate"
    /\ "list" \in probe.intents
    /\ probe.intents \cap {"max", "min"} # {}
    /\ probe.intents \cap {"count", "average"} = {}
    /\ probe.generated = "select"

\* the part of the order that holds: count first, then average, and the
\* projection for a text without intent
CountThenAverage ==
    probe.kind = "translate" =>
        /\ "count" \in probe.intents => probe.generated = "count"
        /\ (probe.intents \cap {"count", "average"}) = {"average"} => probe.generated = "average"
        /\ probe.intents = {} => probe.generated = "select"

\* the mapping the generator of a call requires is absent: no salary column
\* mapped for an average, max or min, no employee table for a count or a
\* projection
RequiredMappingAbsent ==
    /\ probe.kind = "translate"
    /\ IF probe.generated \in {"average", "max", "min"}
       THEN ~probe.salary_mapped
       ELSE probe.employee_table = <<>>

\* C20: a call whose required mapping is absent generates no statement,
\* executes nothing at the store, and returns error set, empty results and
\* results_count = 0
AbsentMappingFails ==
    RequiredMappingAbsent =>
        /\ ~probe.sql.ok
        /\ probe.executed = 0
        /\ "error" \in DOMAIN probe.response
        /\ probe.response.error # ""
        /\ "sql_generated" \notin DOMAIN probe.response
        /\ probe.response.results = <<>>
        /\ probe.response.results_count = 0

\* a count asked of a store without employee table, the store answering
AbsentMappingFailsWitness ==
    /\ RequiredMappingAbsent
    /\ probe.generated = "count"
    /\ probe.store_ok
    /\ probe.response.error = "SQL query processing failed: No employee table found for count query"

\* an average asked where a salary column exists but the text names none
SalaryUnmapped ==
    /\ RequiredMappingAbsent
    /\ probe.generated = "average"
    /\ TranslateStores[probe.store] = "postgresql://hr"
    /\ probe.executed = 0

(***************************************************************************)
(* Direct calls of the statement generation on a store with several        *)
(* employee tables (org: staff, projects, workers), and on stores with one. *)
(***************************************************************************)
TargetStores == <<"postgresql://org", "postgresql://hr", "postgresql://crm">>

\* the texts: a count, list or display phrase, or none, before a subject that
\* matches an employee pattern (employees, staff, workers, users) or matches
\* none (people, everyone)
TargetVerbs == <<"how many ", "count ", "show ", "list ", "display ", "">>

TargetSubjects == <<"employees", "staff", "workers", "users", "people", "everyone">>

\* the table a generated statement reads
TargetOf(sql, tables) ==
    LET hits == SelectSeq(tables, LAMBDA table :
                    \/ sql = "SELECT COUNT(*) as count FROM " \o table.name
                    \/ Contains(sql, " FROM " \o table.name \o " "))
    IN  [i \in 1..Len(hits) |-> hits[i].name]

\* the mapping of a text and the statement generated from it
Target(s, v, n) ==
    LET schema == AnalyzeDatabase(TargetStores[s], NoFault).value
        query == TargetVerbs[v] \o TargetSubjects[n]
        mapping == MapNaturalLanguageToSchema(query, schema)
        sql == GenerateSqlFromNaturalLanguage(schema, query, mapping)
    IN  [kind |-> "target", store |-> s, text |-> query,
         employee_tables |-> schema.table_purposes.employee_tables,
         mapped |-> "employee" \in DOMAIN mapping.table_mappings,
         generated |-> KindOf(sql),
         sql |-> sql,
         target |-> IF sql.ok THEN TargetOf(sql.value, schema.tables) ELSE <<>>]

TargetTable ==
    [s \in 1..Len(TargetStores) |-> [v \in 1..Len(TargetVerbs) |->
        [n \in 1..Len(TargetSubjects) |-> Target(s, v, n)]]]

Generate(s, v, n) ==
    /\ probe' = TargetTable[s][v][n]
    /\ UNCHANGED <<query_engines, stored, query_history, now, calls, faults, last, concurrent>>

NextTarget ==
    \E s \in 1..Len(TargetStores), v \in 1..Len(TargetVerbs), n \in 1..Len(TargetSubjects) :
        Generate(s, v, n)

SpecTarget == Init /\ [][NextTarget]_vars

\* C21: with several employee tables in the schema, a count or projection
\* reads the first of them in schema order, whatever the text
FirstEmployeeTable ==
    (probe.kind = "target" /\ Len(probe.employee_tables) > 1 /\ probe.sql.ok)
        => probe.target = <<probe.employee_tables[1]>>

\* a text that matches an employee pattern is answered from the last
\* employee table of the schema
LastEmployeeTable ==
    /\ probe.kind = "target"
    /\ Len(probe.employee_tables) > 1
    /\ probe.mapped
    /\ probe.generated = "count"
    /\ probe.target = <<probe.employee_tables[Len(probe.employee_tables)]>>
    /\ probe.target # <<probe.employee_tables[1]>>

\* the first employee table is read when the text matches no employee pattern
FirstWhenUnmapped ==
    (probe.kind = "target" /\ probe.employee_tables # <<>> /\ ~probe.mapped)
        => probe.sql.ok /\ probe.target = <<probe.employee_tables[1]>>

\* the last employee table is read when the text matches an employee pattern
LastWhenMapped ==
    (probe.kind = "target" /\ probe.employee_tables # <<>> /\ probe.mapped)
        => probe.sql.ok /\ probe.target = <<probe.employee_tables[Len(probe.employee_tables)]>>

\* the number of places of s where k occurs
Occurrences(s, k) == Cardinality({i \in 1..Len(s) : MatchesAt(s, k, i)})

\* the row caps a statement carries
RowCaps(sql) == Occurrences(Upper(sql), "LIMIT")

\* a call of SpecTranslate that returned a statement
Answered == probe.kind = "translate" /\ "sql_generated" \in DOMAIN probe.response

\* C22: after generation and the safety pass a projection carries exactly
\* one row cap, LIMIT 100, an aggregate carries none, and a second safety
\* pass adds none
OneRowCap ==
    Answered =>
        /\ probe.generated = "select"
               => /\ RowCaps(probe.response.sql_generated) = 1
                  /\ Occurrences(probe.response.sql_generated, "LIMIT 100") = 1
        /\ probe.generated # "select" => RowCaps(probe.response.sql_generated) = 0
        /\ RowCaps(probe.again[1]) = RowCaps(probe.response.sql_generated)

\* a projection with a WHERE clause came back with its one row cap
OneRowCapWitness ==
    /\ Answered
    /\ probe.generated = "select"
    /\ Contains(probe.response.sql_generated, "WHERE department LIKE")
    /\ RowCaps(probe.again[1]) = 1

\* an aggregate came back without row cap
AggregateUncapped ==
    /\ Answered
    /\ probe.generated = "max"
    /\ RowCaps(probe.response.sql_generated) = 0

\* the hand-written lowercased form of a table name of SpecRelations
LoweredOf(name) ==
    RelationTables[CHOOSE n \in 1..Len(RelationTables) : RelationTables[n].name = name].lowered

\* the hand-written stem of a column name of SpecRelations
StemOf(name) ==
    RelationColumns[CHOOSE c \in 1..Len(RelationColumns) : RelationColumns[c].name = name].stem

\* the relationships the identifier-suffix pass emitted in the last call
SuffixRelationships ==
    IF probe.kind = "relations"
    THEN SelectSeq(probe.relationships, LAMBDA r : r.type = "implicit" /\ r.confidence = "medium")
    ELSE <<>>

\* C23: a relationship of the identifier-suffix pass leads from a column X_id
\* only to a table named X or Xs
SuffixMatchesSingularOrPlural ==
    \A i \in 1..Len(SuffixRelationships) :
        LET r == SuffixRelationships[i]
        IN  /\ StemOf(r.from_column[1]) # <<>>
            /\ LoweredOf(r.to_table) \in
                   {StemOf(r.from_column[1])[1], StemOf(r.from_column[1])[1] \o "s"}

\* a column order_id is related to the table Reorders
SuffixMatchesSubstring ==
    \E i \in 1..Len(SuffixRelationships) :
        /\ SuffixRelationships[i].from_column = <<"order_id">>
        /\ SuffixRelationships[i].to_table = "Reorders"

\* what the pass does guarantee: the column ends in _id and the lowercased
\* table name holds its stem
SuffixStemInName ==
    \A i \in 1..Len(SuffixRelationships) :
        LET r == SuffixRelationships[i]
        IN  /\ StemOf(r.from_column[1]) # <<>>
            /\ Contains(LoweredOf(r.to_table), StemOf(r.from_column[1])[1])

(***************************************************************************)
(* Direct calls of _discover_data_relationships on schemas of two tables,  *)
(* each table a key layout followed by one more column.                    *)
(***************************************************************************)
\* the leading columns of a table: a declared key, a column named code, a
\* column named key, no key at all, no column at all, a declared key beside
\* a column named id
KeyLayouts == <<
    <<Column("id", TRUE), Column("name", FALSE)>>,
    <<Column("name", FALSE), Column("code", FALSE)>>,
    <<Column("name", FALSE), Column("key", FALSE)>>,
    <<Column("name", FALSE), Column("title", FALSE)>>,
    <<>>,
    <<Column("ref", TRUE), Column("id", FALSE)>> >>

\* the column that follows: names that hold id, key or code, and one that
\* holds none
LastColumns == <<"owner_id", "Zipcode", "KEY_NO", "email">>

\* the names of LastColumns that hold id, key or code, written by hand
IdentifierLike == {"owner_id", "Zipcode", "KEY_NO", "id", "code", "key"}

InferredSchema(l1, f1, l2, f2) ==
    << TableInfo([name |-> "accounts",
                  columns |-> KeyLayouts[l1] \o <<Column(LastColumns[f1], FALSE)>>], 1, NoFault),
       TableInfo([name |-> "owners",
                  columns |-> KeyLayouts[l2] \o <<Column(LastColumns[f2], FALSE)>>], 1, NoFault) >>

InferredTable ==
    [l1 \in 1..Len(KeyLayouts) |-> [f1 \in 1..Len(LastColumns) |->
        [l2 \in 1..Len(KeyLayouts) |-> [f2 \in 1..Len(LastColumns) |->
            LET tables == InferredSchema(l1, f1, l2, f2)
            IN  [kind |-> "inferred", tables |-> tables,
                 guessed |-> [t \in 1..2 |-> GuessPrimaryKey(tables[t])],
                 relationships |-> DiscoverDataRelationships(tables, TRUE)]]]]]

Infer(l1, f1, l2, f2) ==
    /\ probe' = InferredTable[l1][f1][l2][f2]
    /\ UNCHANGED <<query_engines, stored, query_history, now, calls, faults, last, concurrent>>

NextInferred ==
    \E l1, l2 \in 1..Len(KeyLayouts) : \E f1, f2 \in 1..Len(LastColumns) : Infer(l1, f1, l2, f2)

SpecInferred == Init /\ [][NextInferred]_vars

\* the key columns the inferred relationships of column c of table t name in
\* table u
InferredTo(t, c, u) ==
    LET found == SelectSeq(probe.relationships, LAMBDA r :
                     /\ r.type = "inferred" /\ r.confidence = "low"
                     /\ r.from_table = probe.tables[t].name
                     /\ r.from_column = <<probe.tables[t].columns[c].name>>
                     /\ r.to_table = probe.tables[u].name)
    IN  [i \in 1..Len(found) |-> found[i].to_column[1]]

\* C24: a column whose name holds id, key or code is paired, in the other
\* table, with exactly the columns the primary-key guess gives for it
InferredToGuessedKey ==
    probe.kind = "inferred" =>
        \A t \in 1..2 : \A c \in 1..Len(probe.tables[t].columns) :
            probe.tables[t].columns[c].name \in IdentifierLike
                => InferredTo(t, c, 3 - t) = probe.guessed[3 - t]

\* an identifier column beside a table that has columns but neither a
\* declared key nor a column named id or code: the guess names that table's
\* first column, the pass relates nothing to it
NoInferredRelationship ==
    /\ probe.kind = "inferred"
    /\ probe.tables[1].columns[Len(probe.tables[1].columns)].name = "owner_id"
    /\ probe.guessed[2] = <<"name">>
    /\ InferredTo(1, Len(probe.tables[1].columns), 2) = <<>>

\* what the pass does pair the column with: the columns of the other table
\* that are flagged as key or are named id or code
InferredToFlaggedOrNamed ==
    probe.kind = "inferred" =>
        \A t \in 1..2 : \A c \in 1..Len(probe.tables[t].columns) :
            LET other == probe.tables[3 - t].columns
                keys == SelectSeq(other, LAMBDA col : col.primary_key \/ col.name \in {"id", "code"})
            IN  InferredTo(t, c, 3 - t) =
                    IF probe.tables[t].columns[c].name \in IdentifierLike
                    THEN [k \in 1..Len(keys) |-> keys[k].name]
                    ELSE <<>>

(***************************************************************************)
(* The cache, the history and the registry under the requests of Spec.     *)
(***************************************************************************)
\* what the cache of the engine the last request used holds for its text, at
\* the time of the request
CachedForLast ==
    CacheGet(query_engines[last.connection_string].cache, CacheKeyTable[last.query], last.time)

\* a request has just been answered from the cache
HitStep == calls' = calls + 1 /\ last'.kind = "hit"

\* C25: a miss leaves its response in the cache whether or not it carries an
\* error, and a hit returns what the cache held, error included, marked as a
\* hit, adding no history row
ErrorsAreCachedStep ==
    /\ (calls' = calls + 1 /\ last'.kind = "miss")
           => CacheGet(query_engines'[last'.connection_string].cache,
                       CacheKeyTable[last'.query], now) = last'.result
    /\ HitStep
           => LET cached == CacheGet(query_engines[last'.connection_string].cache,
                                     CacheKeyTable[last'.query], now)
              IN  /\ cached # <<>>
                  /\ last'.result[1] = [cached[1] EXCEPT !.cache_hit = TRUE, !.response_time = 0]
                  /\ last'.response.cache_hit
                  /\ "error" \in DOMAIN cached[1]
                         => /\ "error" \in DOMAIN last'.response
                            /\ last'.response.error = cached[1].error
                  /\ query_history' = query_history

ErrorsAreCached == [][ErrorsAreCachedStep]_vars

\* a statement failed at the store, the same text was asked again inside the
\* time-to-live with the store answering, and the failure came back as a hit
ErrorsAreCachedWitness ==
    /\ last.kind = "hit"
    /\ last.env = NoFault
    /\ last.response.cache_hit
    /\ "error" \in DOMAIN last.response
    /\ "error" \notin DOMAIN SqlLaneTable[last.connection_string, last.query, TRUE]
    /\ QueryTypeTable[last.query] = "sql"

\* a failed translation in the cache after the miss that produced it
TranslationErrorCached ==
    /\ last.kind = "miss"
    /\ "error" \in DOMAIN last.response
    /\ last.env = NoFault
    /\ CachedForLast = last.result

\* GET /metrics: the hit rate in hundredths of a percent, the number of rows
\* of query_history and the size of the registry
GetMetrics(history, engines) ==
    LET total_queries == Len(history)
        cache_hits == Len(SelectSeq(history, LAMBDA row : row.cache_hit = 1))
    IN  [cache_hit_rate |-> IF total_queries > 0
                            THEN (cache_hits * 10000) \div total_queries ELSE 0,
         total_queries |-> total_queries,
         active_connections |-> Cardinality(DOMAIN engines)]

\* a request for which process_query ran and found nothing in the cache,
\* whether it then returned or raised
MissStep == calls' = calls + 1 /\ last'.kind \in {"miss", "raised"}

\* C26, as stated: no row records a hit, every call that misses the cache
\* adds one row and no other call adds any, so the metrics count the misses
\* and report a hit rate of 0
RowsCountMissesStep ==
    /\ \A i \in 1..Len(query_history') : query_history'[i].cache_hit = 0
    /\ Len(query_history') = Len(query_history) + (IF MissStep THEN 1 ELSE 0)
    /\ GetMetrics(query_history', query_engines').cache_hit_rate = 0

RowsCountMisses == [][RowsCountMissesStep]_vars

\* C26: no row records a hit, every miss that process_query returns from
\* adds one row, and a hit, a miss whose commit of the row fails, and a
\* request whose engine cannot be built add none; the metrics count the rows
\* and report a hit rate of 0
RowsCountReturnedMissesStep ==
    /\ \A i \in 1..Len(query_history') : query_history'[i].cache_hit = 0
    /\ Len(query_history') = Len(query_history)
           + (IF calls' = calls + 1 /\ last'.kind = "miss" THEN 1 ELSE 0)
    /\ GetMetrics(query_history', query_engines').cache_hit_rate = 0
    /\ GetMetrics(query_history', query_engines').total_queries = Len(query_history')

RowsCountReturnedMisses == [][RowsCountReturnedMissesStep]_vars

\* a miss and a hit have been served and one row is there
RowsCountReturnedMissesWitness ==
    /\ calls = 2
    /\ last.kind = "hit"
    /\ GetMetrics(query_history, query_engines) =
           [cache_hit_rate |-> 0, total_queries |-> 1, active_connections |-> 1]

\* C27: every response of the route, from whichever lane, on a hit or a
\* miss, on success or after a failure, counts the results it carries
CountMatchesResults ==
    last.kind # "none" =>
        /\ last.response.results_count = Len(last.response.results)
        /\ last.kind \in {"hit", "miss"}
               => last.result[1].results_count = Len(last.result[1].results)

\* a hybrid answer served from the cache: the rows of the table and the
\* fifteen best fragments
CountMatchesResultsWitness ==
    /\ last.kind = "hit"
    /\ last.response.query_type = "hybrid"
    /\ last.response.sql_count > 0
    /\ last.response.document_count = TopResults
    /\ last.response.results_count = last.response.sql_count + TopResults

\* a failure of the store answered with no results and a count of 0
CountOfFailure ==
    /\ last.kind = "miss"
    /\ "error" \in DOMAIN last.response
    /\ last.response.results_count = 0
    /\ last.response.results = <<>>

\* what the engine of a connection string can have stored for a text: the
\* stamped result of its lanes, whatever was in the fragment store and
\* whichever lane failed
Producible(connection_string, query) ==
    {Merge(Dispatch(query_engines[connection_string], query, n,
                    [store_ok |-> store_ok, search_ok |-> search_ok], QueryTypeTable[query]),
           [query_type |-> QueryTypeTable[query],
            response_time |-> Elapsed(IF QueryTypeTable[query] = "hybrid" THEN 2 ELSE 1),
            cache_hit |-> FALSE]) :
        n \in 0..stored, store_ok \in BOOLEAN, search_ok \in BOOLEAN}

\* C28: a request is a hit only on what the cache of its own engine held, a
\* cache holds only what its own engine produced, and a request leaves the
\* engines of the other connection strings as they were
CachesIsolatedStep ==
    calls' = calls + 1 =>
        /\ \A c \in DOMAIN query_engines \ {last'.connection_string} :
              query_engines'[c] = query_engines[c]
        /\ last'.kind = "hit" =>
              /\ last'.connection_string \in DOMAIN query_engines
              /\ CacheGet(query_engines[last'.connection_string].cache,
                          CacheKeyTable[last'.query], now) # <<>>
        /\ \A c \in DOMAIN query_engines' : \A q \in QuerySet :
              LET cached == CacheGet(query_engines'[c].cache, CacheKeyTable[q], now)
              IN  cached # <<>> => cached[1] \in Producible(c, q)'

CachesIsolated == [][CachesIsolatedStep]_vars

\* a text answered for one connection string and then asked, inside the
\* time-to-live, of the other: a miss, answered differently
CachesIsolatedWitness ==
    /\ last.kind = "miss"
    /\ last.connection_string = "postgresql://ops"
    /\ "postgresql://hr" \in DOMAIN query_engines
    /\ LET cached == CacheGet(query_engines["postgresql://hr"].cache,
                              CacheKeyTable[last.query], now)
       IN  /\ cached # <<>>
           /\ cached # last.result
           /\ cached[1] \notin Producible("postgresql://ops", last.query)

\* the connection strings for which a request has got past the get-or-create
\* block of the route with an engine
Constructed ==
    {handlers.task[t].connection_string :
        t \in {u \in Tasks : handlers.task[u].pc \in {"process", "served"}}}

\* C29: the registry only grows and an entry is never replaced; a request
\* whose construction fails leaves the registry as it was, so that the next
\* request for the connection string constructs again; active_connections is
\* the number of connection strings whose construction succeeded
RegistryGrowsStep ==
    /\ \A c \in DOMAIN query_engines :
          c \in DOMAIN query_engines' /\ query_engines'[c] = query_engines[c]
    /\ \A t \in Tasks :
          /\ (handlers.task[t].pc # "failed" /\ handlers'.task[t].pc = "failed")
                 => query_engines' = query_engines
          /\ (handlers.task[t].pc = "check" /\ handlers'.task[t].pc # "check")
                 => (handlers'.task[t].pc = "construct"
                        <=> handlers.task[t].connection_string \notin DOMAIN query_engines)
    /\ GetMetrics(query_history', query_engines').active_connections = Cardinality(Constructed')

RegistryGrows == [][RegistryGrowsStep]_vars

\* a first request failed to construct the engine of a connection string,
\* a second constructed and registered it and was answered by it
RegistryGrowsWitness ==
    /\ handlers.task[1].connection_string = "postgresql://hr"
    /\ handlers.task[1].pc = "failed"
    /\ handlers.task[2].connection_string = "postgresql://hr"
    /\ handlers.task[2].pc = "served"
    /\ query_engines["postgresql://hr"].id = 2
    /\ GetMetrics(query_history, query_engines).active_connections = 1

(***************************************************************************)
(* Direct calls of _process_sql_query with texts that carry, after a       *)
(* department phrase, text meant for the statement.                        *)
(***************************************************************************)
InjectStores == <<"postgresql://hr", "postgresql://crm">>

InjectVerbs == <<"show employees in the ", "how many in the ", "highest salary in the ">>

\* the vocabulary of _build_where_clause
DepartmentVocabulary == <<"engineering", "sales", "marketing", "hr", "finance", "it">>

\* the department a text names: one of the vocabulary, or one outside it
InjectDepartments == DepartmentVocabulary \o <<"legal">>

InjectTails == <<"", "' OR '1'='1", "; DROP TABLE employees; --", " UNION SELECT name FROM owners">>

InjectText(v, d, x) == InjectVerbs[v] \o InjectDepartments[d] \o " department" \o InjectTails[x]

\* one call: the statement generated and the statement sent to the store
Injection(s, v, d, x) ==
    LET schema == AnalyzeDatabase(InjectStores[s], NoFault).value
        query == InjectText(v, d, x)
        attempt == SqlAttempt(schema, query, StoreRows(InjectStores[s]), [store_ok |-> TRUE])
    IN  [kind |-> "inject", store |-> s, verb |-> v, department |-> d, tail |-> x,
         executed |-> IF attempt.stage = "ok" THEN <<attempt.sql_generated>> ELSE <<>>]

InjectionTable ==
    [s \in 1..Len(InjectStores) |-> [v \in 1..Len(InjectVerbs) |->
        [d \in 1..Len(InjectDepartments) |-> [x \in 1..Len(InjectTails) |->
            Injection(s, v, d, x)]]]]

Inject(s, v, d, x) ==
    /\ probe' = InjectionTable[s][v][d][x]
    /\ UNCHANGED <<query_engines, stored, query_history, now, calls, faults, last, concurrent>>

NextInject ==
    \E s \in 1..Len(InjectStores), v \in 1..Len(InjectVerbs) :
        \E d \in 1..Len(InjectDepartments), x \in 1..Len(InjectTails) : Inject(s, v, d, x)

SpecInject == Init /\ [][NextInject]_vars

\* the statements that can be written from a schema and the vocabulary
\* alone, as the store receives them
StatementsOf(tables) ==
    LET names(t) == Join([i \in 1..Len(tables[t].columns) |-> tables[t].columns[i].name], ", ")
    IN  UNION {
            {"SELECT COUNT(*) AS count\nFROM " \o tables[t].name,
             "SELECT " \o names(t) \o "\nFROM " \o tables[t].name \o "\nLIMIT 100"}
            \cup
            UNION {{"SELECT AVG(" \o tables[t].columns[c].name \o ") AS average_salary\nFROM " \o tables[t].name,
                    "SELECT MAX(" \o tables[t].columns[c].name \o ") AS max_salary\nFROM " \o tables[t].name,
                    "SELECT MIN(" \o tables[t].columns[c].name \o ") AS min_salary\nFROM " \o tables[t].name}
                   \cup
                   {"SELECT " \o names(t) \o "\nFROM " \o tables[t].name
                        \o "\nWHERE " \o tables[t].columns[c].name
                        \o " LIKE '%" \o DepartmentVocabulary[w] \o "%'\nLIMIT 100" :
                       w \in 1..Len(DepartmentVocabulary)} :
                   c \in 1..Len(tables[t].columns)} :
            t \in 1..Len(tables)}

StatementsTable ==
    [s \in 1..Len(InjectStores) |-> StatementsOf(DatabaseTables(InjectStores[s]))]

\* C30: the statement sent to the store is one that the schema and the
\* department vocabulary alone determine; no other text of the query is in it
OnlyVocabularyReachesStore ==
    probe.kind = "inject" =>
        \A i \in 1..Len(probe.executed) : probe.executed[i] \in StatementsTable[probe.store]

\* a text with a quote and a condition after the department: the filter on
\* the vocabulary word, and nothing of the rest
OnlyVocabularyReachesStoreWitness ==
    /\ probe.kind = "inject"
    /\ InjectTails[probe.tail] = "' OR '1'='1"
    /\ InjectDepartments[probe.department] = "sales"
    /\ probe.executed = <<"SELECT id, name, department, salary\nFROM employees\nWHERE department LIKE '%sales%'\nLIMIT 100">>

====
